---- MODULE Spec2Model ----
(***************************************************************************)
(* A model of lazybar-core's layout and repaint engine (bar.rs).           *)
(*                                                                         *)
(* Numbers.  PanelDrawInfo.width is an i32 and is kept as an integer.      *)
(* Every f64 coordinate of the code (Panel.x, Extents, Margins) is stored  *)
(* in HALF PIXELS, i.e. multiplied by two, so that `center_width / 2.0`    *)
(* is exact in integer arithmetic.  F(n) is f64::from(n) in that unit and  *)
(* Px(n) reads a pixel count as such a coordinate.                         *)
(*                                                                         *)
(* Options.  Option<T> is a record with a field `some`; None is            *)
(* [some |-> FALSE].                                                       *)
(*                                                                         *)
(* Indices are 0-based as in the code; Get(panels, idx) is slice::get.     *)
(***************************************************************************)
EXTENDS Integers, Sequences, FiniteSets, TLC

VARIABLES
    bar,        \* the Bar object (struct Bar): a record of its fields
    slice,      \* argument of the last direct call of apply_dependence
    statuses,   \* its result (Option: none before the first call)
    pc,         \* position of the driver of the specification in use
    hook_calls, \* per panel of `slice`: show_fn and hide_fn invocations so far
    passes,     \* number of latch passes made over `slice`
    ipc         \* what lies outside the Bar: the IPC caller's channel, the
                \* blocking tasks spawned on ipc_set, the panels' endpoints

vars == <<bar, slice, statuses, pc, hook_calls, passes, ipc>>

---------------------------------------------------------------------------
(* Bounds of the model                                                     *)

\* longest panel slice handed to the dependence resolver on its own
MaxLen == 3

\* most latch passes made over one slice
MaxPasses == 4

---------------------------------------------------------------------------
(* Values                                                                  *)

F(n) == 2 * n

Px(n) == 2 * n

None == [some |-> FALSE]

Dependence == {"None", "Left", "Right", "Both"}

\* enum PanelStatus
Shown == [tag |-> "Shown"]

ZeroWidth == [tag |-> "ZeroWidth"]

Dependent(d) == [tag |-> "Dependent", dep |-> d]

\* the outcome of an arithmetic-overflow panic while a status is computed
Panic == [tag |-> "Panic"]

\* PanelDrawInfo::new; the callbacks are modelled by their presence
PanelDrawInfo(w, d, show, hide) ==
    [some |-> TRUE, width |-> w, dependence |-> d,
     show_fn |-> show, hide_fn |-> hide]

\* Panel::new; `endpoint` is None or names the panel's channel endpoint
Panel(draw_info, name, endpoint, visible) ==
    [draw_info |-> draw_info, x |-> 0, name |-> name, visible |-> visible,
     last_status |-> FALSE, endpoint |-> endpoint]

\* nothing sent to the IPC caller, no spawned task, no channel endpoint and
\* no input handled yet; `input` is the input the event loop handled last,
\* with the parity of the number of inputs handled so far
NoIpc ==
    [caller |-> <<>>, tasks |-> <<>>, endpoints |-> <<>>,
     input |-> [kind |-> "none", parity |-> FALSE]]

\* slice::get
Get(panels, idx) ==
    IF idx >= 0 /\ idx < Len(panels)
    THEN [some |-> TRUE, val |-> panels[idx + 1]]
    ELSE None

---------------------------------------------------------------------------
(* Dependence resolver                                                     *)

\* impl BitAnd for PanelStatus
BitAnd(lhs, rhs) ==
    IF lhs = Shown /\ rhs = Shown THEN Shown ELSE ZeroWidth

\* PanelStatusFrom without the test of a zero width
PanelStatusFromMutant(value) ==
    IF value.visible
    THEN IF ~value.draw_info.some THEN ZeroWidth
         ELSE IF value.draw_info.dependence = "None"
              THEN Shown
              ELSE Dependent(value.draw_info.dependence)
    ELSE ZeroWidth

\* impl From<&Panel> for PanelStatus
PanelStatusFrom(value) ==
    IF value.visible
    THEN IF ~value.draw_info.some THEN ZeroWidth
         ELSE IF value.draw_info.dependence = "None"
                   /\ value.draw_info.width = 0
              THEN ZeroWidth
              ELSE IF value.draw_info.dependence = "None"
                   THEN Shown
                   ELSE Dependent(value.draw_info.dependence)
    ELSE ZeroWidth

\* panels.get(i).map_or(PanelStatus::ZeroWidth, PanelStatus::from)
NeighbourStatus(panels, i) ==
    IF Get(panels, i).some
    THEN PanelStatusFrom(Get(panels, i).val)
    ELSE ZeroWidth

\* `idx - 1` on usize.  With overflow checks (debug profile) 0 - 1 panics;
\* without them it wraps to usize::MAX, written -1 here (congruent modulo
\* 2^64, and like usize::MAX outside every slice).
LeftOf(panels, idx, overflow_checks) ==
    IF idx = 0 /\ overflow_checks
    THEN Panic
    ELSE NeighbourStatus(panels, idx - 1)

\* Resolve with a Left dependence that only asks the neighbour not to be
\* ZeroWidth
ResolveMutant(panels, idx, overflow_checks) ==
    LET primary == PanelStatusFrom(panels[idx + 1]) IN
    IF primary = Shown THEN Shown
    ELSE IF primary = ZeroWidth THEN ZeroWidth
    ELSE IF primary.dep = "Left"
         THEN IF LeftOf(panels, idx, overflow_checks) = ZeroWidth
              THEN ZeroWidth ELSE Shown
    ELSE IF primary.dep = "Right"
         THEN NeighbourStatus(panels, idx + 1)
    ELSE LET l == LeftOf(panels, idx, overflow_checks) IN
         IF l = Panic THEN Panic
         ELSE BitAnd(l, NeighbourStatus(panels, idx + 1))

\* the closure of apply_dependence: the status of panels[idx]
Resolve(panels, idx, overflow_checks) ==
    LET primary == PanelStatusFrom(panels[idx + 1]) IN
    IF primary = Shown THEN Shown
    ELSE IF primary = ZeroWidth THEN ZeroWidth
    ELSE IF primary.dep = "Left"
         THEN LeftOf(panels, idx, overflow_checks)
    ELSE IF primary.dep = "Right"
         THEN NeighbourStatus(panels, idx + 1)
    ELSE LET l == LeftOf(panels, idx, overflow_checks) IN
         IF l = Panic THEN Panic
         ELSE BitAnd(l, NeighbourStatus(panels, idx + 1))

\* Bar::apply_dependence.  The result is the vector of statuses; a panic
\* while mapping some index leaves Panic at that index (no vector exists).
apply_dependence(panels, overflow_checks) ==
    [i \in 1..Len(panels) |-> Resolve(panels, i - 1, overflow_checks)]

Panicked(sts) == \E i \in 1..Len(sts) : sts[i] = Panic

---------------------------------------------------------------------------
(* Show/hide latch                                                         *)

\* the indices 0 .. n-1 in order
Indices(n) == [i \in 1..n |-> i - 1]

\* one entry of the call trace kept in bar.log
Call(fn, region, idx) == [fn |-> fn, region |-> region, idx |-> idx]

\* the `hidden` vector of process_show_hide_events (as indices)
HiddenOf(panels, sts) ==
    SelectSeq(Indices(Len(panels)),
              LAMBDA i : /\ panels[i + 1].draw_info.some
                         /\ panels[i + 1].last_status
                         /\ sts[i + 1] # Shown)

\* ShownOf without the test of last_status
ShownOfMutant(panels, sts) ==
    SelectSeq(Indices(Len(panels)),
              LAMBDA i : /\ panels[i + 1].draw_info.some
                         /\ sts[i + 1] = Shown)

\* the `shown` vector of process_show_hide_events (as indices)
ShownOf(panels, sts) ==
    SelectSeq(Indices(Len(panels)),
              LAMBDA i : /\ panels[i + 1].draw_info.some
                         /\ ~panels[i + 1].last_status
                         /\ sts[i + 1] = Shown)

\* panel.last_status = status == PanelStatus::Shown, for every panel
Latch(panels, sts) ==
    [i \in 1..Len(panels) |->
        [panels[i] EXCEPT !.last_status = (sts[i] = Shown)]]

\* the two loops that invoke the hooks: hide_fn of every collected panel
\* that has one, then show_fn likewise
HookCalls(panels, sts, region) ==
    LET hid == SelectSeq(HiddenOf(panels, sts),
                         LAMBDA i : panels[i + 1].draw_info.hide_fn)
        shw == SelectSeq(ShownOf(panels, sts),
                         LAMBDA i : panels[i + 1].draw_info.show_fn)
    IN  [k \in 1..Len(hid) |-> Call("hide_fn", region, hid[k])]
        \o [k \in 1..Len(shw) |-> Call("show_fn", region, shw[k])]

\* Bar::process_show_hide_events: the panels with their latches updated and
\* the hook calls made, in order (`region` only labels the calls)
process_show_hide_events(panels, sts, region) ==
    [panels |-> Latch(panels, sts),
     calls  |-> HookCalls(panels, sts, region)]

---------------------------------------------------------------------------
(* Placement                                                               *)

RECURSIVE ShownWidth(_, _, _)
\* summed width (i32) of the Shown panels among the first n
ShownWidth(panels, sts, n) ==
    IF n = 0 THEN 0
    ELSE ShownWidth(panels, sts, n - 1)
         + (IF sts[n] = Shown /\ panels[n].draw_info.some
            THEN panels[n].draw_info.width ELSE 0)

\* Place without the advance of the cursor
PlaceMutant(panels, sts, start) ==
    [i \in 1..Len(panels) |->
        IF sts[i] = Shown /\ panels[i].draw_info.some
        THEN [panels[i] EXCEPT !.x = start]
        ELSE panels[i]]

\* the placement loop shared by the three regions: every Shown panel is
\* put at the running cursor, drawn, and the cursor advanced by its width
Place(panels, sts, start) ==
    [i \in 1..Len(panels) |->
        IF sts[i] = Shown /\ panels[i].draw_info.some
        THEN [panels[i] EXCEPT !.x = start + F(ShownWidth(panels, sts, i - 1))]
        ELSE panels[i]]

\* the draw_fn calls of that loop
DrawCalls(panels, sts, region) ==
    LET idxs == SelectSeq(Indices(Len(panels)),
                          LAMBDA i : sts[i + 1] = Shown
                                     /\ panels[i + 1].draw_info.some)
    IN  [k \in 1..Len(idxs) |-> Call("draw_fn", region, idxs[k])]


---------------------------------------------------------------------------
(* The bar                                                                 *)

Alignment == {"Left", "Center", "Right"}

\* struct Margins, in half pixels
Margins(l, i, r) == [left |-> Px(l), internal |-> Px(i), right |-> Px(r)]

\* Bar::new.  Besides the fields of struct Bar the record holds
\*   overflow_checks  the build profile (whether usize arithmetic panics),
\*   window_mapped    the map state of the window at the X server,
\*   panicked         whether the process has aborted in a panic,
\*   log              the calls made by the operation in progress,
\*   result           what the last operation returned.
NewBar(width, margins, reverse_scroll, overflow_checks) ==
    [width          |-> width,
     margins        |-> margins,
     extents        |-> [left   |-> 0,
                         center |-> <<F(width \div 2), F(width \div 2)>>,
                         right  |-> F(width)],
     reverse_scroll |-> reverse_scroll,
     left_panels    |-> <<>>,
     center_panels  |-> <<>>,
     right_panels   |-> <<>>,
     mapped         |-> TRUE,
     center_state   |-> "Center",
     overflow_checks |-> overflow_checks,
     window_mapped  |-> TRUE,
     panicked       |-> FALSE,
     log            |-> <<>>,
     result         |-> "none"]

\* the panels of one region
PanelsOf(b, region) ==
    CASE region = "Left"   -> b.left_panels
      [] region = "Center" -> b.center_panels
      [] region = "Right"  -> b.right_panels

WithPanels(b, region, panels) ==
    CASE region = "Left"   -> [b EXCEPT !.left_panels = panels]
      [] region = "Center" -> [b EXCEPT !.center_panels = panels]
      [] region = "Right"  -> [b EXCEPT !.right_panels = panels]

Logged(b, calls) == [b EXCEPT !.log = @ \o calls]

Abort(b) == [b EXCEPT !.panicked = TRUE, !.result = "panic"]

---------------------------------------------------------------------------
(* Layout engine                                                           *)

\* LeftPlaced without the advance of extents.left
LeftPlacedMutant(b1, sts, ev) ==
    [Logged(b1, ev.calls \o DrawCalls(ev.panels, sts, "Left"))
        EXCEPT !.left_panels = Place(ev.panels, sts, b1.extents.left)]

\* the rest of Bar::redraw_left once the hooks have run: placement, drawing
\* and the new extents.left
LeftPlaced(b1, sts, ev) ==
    [Logged(b1, ev.calls \o DrawCalls(ev.panels, sts, "Left"))
        EXCEPT !.left_panels = Place(ev.panels, sts, b1.extents.left),
               !.extents.left = @ + F(ShownWidth(ev.panels, sts, Len(sts)))]

\* the rest of Bar::redraw_left once the statuses are known
LeftEvents(b1, sts) ==
    IF Panicked(sts) THEN Abort(b1)
    ELSE LeftPlaced(b1, sts,
                    process_show_hide_events(b1.left_panels, sts, "Left"))

\* Bar::redraw_left
redraw_left(b0) ==
    LET b1 == [Logged(b0, <<Call("redraw_left", "Left", -1)>>)
                    EXCEPT !.extents.left = b0.margins.left]
    IN  LeftEvents(b1, apply_dependence(b1.left_panels, b1.overflow_checks))

\* RightStart without the clamp to the center cursor
RightStartMutant(b, total_width) ==
    F(b.width) - total_width

\* the placement of the right region in Bar::redraw_right
RightStart(b, total_width) ==
    IF total_width > F(b.width) - b.extents.center[2]
    THEN b.extents.center[2] + b.margins.internal
    ELSE F(b.width) - total_width

\* the rest of Bar::redraw_right once the region's start is known
RightPlaced(b1, sts, ev, right) ==
    [Logged(b1, ev.calls \o DrawCalls(ev.panels, sts, "Right"))
        EXCEPT !.right_panels = Place(ev.panels, sts, right),
               !.extents.right = right]

\* the rest of Bar::redraw_right once the statuses are known
RightEvents(b1, sts, ev) ==
    RightPlaced(b1, sts, ev,
                RightStart(b1, F(ShownWidth(ev.panels, sts, Len(sts)))
                               + b1.margins.right))

\* the statuses Bar::redraw_right works with; `given` is the
\* Option<Vec<PanelStatus>>
RightStatuses(b1, sts) ==
    IF Panicked(sts) THEN Abort(b1)
    ELSE RightEvents(b1, sts,
                     process_show_hide_events(b1.right_panels, sts, "Right"))

\* Bar::redraw_right
redraw_right(b0, standalone, given) ==
    LET b1 == Logged(b0, <<Call("redraw_right", "Right", -1)>>)
    IN  RightStatuses(b1,
            IF given.some THEN given.val
            ELSE apply_dependence(b1.right_panels, b1.overflow_checks))

\* CenterStart without the test of pressure from the left region
CenterStartNoLeftPressure(b, right, cw) ==
    LET m    == b.margins.internal
        left == b.extents.left
        mid  == F(b.width \div 2)
    IN  IF cw > right - left - 2 * m
        THEN [start |-> m + left, state |-> "Unknown"]
        ELSE IF cw > 2 * (right - mid - m)
        THEN [start |-> right - cw - m, state |-> "Left"]
        ELSE [start |-> mid - cw \div 2, state |-> "Center"]

\* the four-way choice of Bar::redraw_center_right: center.0 and the state,
\* from extents.left, the provisional extents.right and center_width (f64)
CenterStart(b, right, cw) ==
    LET m    == b.margins.internal
        left == b.extents.left
        mid  == F(b.width \div 2)
    IN  IF cw > right - left - 2 * m
        THEN [start |-> m + left, state |-> "Unknown"]
        ELSE IF cw > 2 * (right - mid - m)
        THEN [start |-> right - cw - m, state |-> "Left"]
        ELSE IF cw > 2 * (mid - left - m)
        THEN [start |-> left + m, state |-> "Right"]
        ELSE [start |-> mid - cw \div 2, state |-> "Center"]

\* the end of Bar::redraw_center_right: the center panels are placed from
\* c.start, the extents and the state are stored, and the right region is
\* repainted with the statuses already computed
CenterPlaced(b2, standalone, cst, cev, rst, rev, cw, right, c) ==
    redraw_right(
        [Logged(b2, rev.calls \o DrawCalls(cev.panels, cst, "Center"))
            EXCEPT !.center_panels = Place(cev.panels, cst, c.start),
                   !.right_panels = rev.panels,
                   !.extents.right = right,
                   !.extents.center = <<c.start, c.start + cw>>,
                   !.center_state = c.state],
        standalone, [some |-> TRUE, val |-> rst])

\* center_width and the provisional extents.right, then the four-way choice
CenterMeasured(b2, standalone, cst, cev, rst, rev, cw, right) ==
    CenterPlaced(b2, standalone, cst, cev, rst, rev, cw, right,
                 CenterStart(b2, right, cw))

\* the rest of Bar::redraw_center_right once the right statuses are known
CenterRightEvents(b2, standalone, cst, cev, rst, rev) ==
    CenterMeasured(b2, standalone, cst, cev, rst, rev,
        F(ShownWidth(cev.panels, cst, Len(cst))),
        F(b2.width - ShownWidth(rev.panels, rst, Len(rst)))
            - b2.margins.internal)

\* the right statuses and the right hooks of Bar::redraw_center_right
CenterRightStatuses(b2, standalone, cst, cev, rst) ==
    IF Panicked(rst)
    THEN Abort([b2 EXCEPT !.center_panels = cev.panels])
    ELSE CenterRightEvents(b2, standalone, cst, cev, rst,
             process_show_hide_events(b2.right_panels, rst, "Right"))

\* the rest of Bar::redraw_center_right once the center hooks have run
CenterEvents(b1, standalone, cst, cev) ==
    CenterRightStatuses(Logged(b1, cev.calls), standalone, cst, cev,
        apply_dependence(b1.right_panels, b1.overflow_checks))

\* the rest of Bar::redraw_center_right once the center statuses are known
CenterStatuses(b1, standalone, cst) ==
    IF Panicked(cst) THEN Abort(b1)
    ELSE CenterEvents(b1, standalone, cst,
             process_show_hide_events(b1.center_panels, cst, "Center"))

\* Bar::redraw_center_right
redraw_center_right(b0, standalone) ==
    LET b1 == Logged(b0, <<Call("redraw_center_right", "Center", -1)>>)
    IN  CenterStatuses(b1, standalone,
            apply_dependence(b1.center_panels, b1.overflow_checks))

\* the second half of Bar::redraw_bar: `?` after redraw_left
AfterLeft(b1) ==
    IF b1.panicked THEN b1 ELSE redraw_center_right(b1, FALSE)

\* Bar::redraw_bar
redraw_bar(b0) ==
    AfterLeft(redraw_left(Logged(b0, <<Call("redraw_bar", "All", -1)>>)))

\* redraw_one as a repaint of the whole bar
redraw_oneMutant(b, alignment, idx) == redraw_bar(b)

\* Bar::redraw_one: extents and placements are left alone; the panel is
\* drawn at its current x when it has a draw_info
redraw_one(b, alignment, idx) ==
    Logged(b, <<Call("redraw_one", alignment, idx)>>
              \o (IF PanelsOf(b, alignment)[idx + 1].draw_info.some
                  THEN <<Call("draw_fn", alignment, idx)>> ELSE <<>>))


---------------------------------------------------------------------------
(* Repaint dispatcher                                                      *)

\* draw_info.as_ref().map_or(0, |i| i.width)
CurWidth(panel) == IF panel.draw_info.some THEN panel.draw_info.width ELSE 0

\* LeftOnly without the test of the center state
LeftOnlyMutant(b, new_width, cur_width) ==
    new_width - cur_width + b.extents.left + b.margins.internal
        < b.extents.center[1]

\* the test of update_panel that allows a left-only repaint
LeftOnly(b, new_width, cur_width) ==
    /\ new_width - cur_width + b.extents.left + b.margins.internal
           < b.extents.center[1]
    /\ b.center_state \in {"Center", "Left"}

\* the test of update_panel that allows a right-only repaint
RightOnly(b, new_width, cur_width) ==
    b.extents.right - new_width - cur_width - b.margins.internal
        > b.extents.center[2]

\* the test of update_panel that allows a center+right repaint
CenterRightOnly(b, new_width, cur_width) ==
    (b.extents.right - b.extents.center[2] - b.margins.internal)
        + (b.extents.center[1] - b.extents.left - b.margins.internal)
        > new_width - cur_width

\* the choice of repaint in Bar::update_panel, once the draw_info is stored
Repaint(b1, alignment, idx, new_width, cur_width) ==
    IF new_width - cur_width = 0
    THEN redraw_one(b1, alignment, idx)
    ELSE CASE alignment = "Left" ->
                IF LeftOnly(b1, new_width, cur_width)
                THEN redraw_left(b1)
                ELSE redraw_bar(b1)
           [] alignment = "Center" -> redraw_bar(b1)
           [] alignment = "Right" ->
                IF RightOnly(b1, new_width, cur_width)
                THEN redraw_right(b1, TRUE, None)
                ELSE IF CenterRightOnly(b1, new_width, cur_width)
                THEN redraw_center_right(
                         [b1 EXCEPT !.extents.right =
                                        @ + new_width - cur_width],
                         TRUE)
                ELSE redraw_bar(b1)

\* Bar::update_panel, for an index the region has
update_panel(b0, alignment, idx, draw_info) ==
    Repaint(WithPanels([b0 EXCEPT !.log = <<Call("update_panel", alignment, idx)>>,
                                  !.result = "Ok"], alignment,
                       [PanelsOf(b0, alignment)
                            EXCEPT ![idx + 1].draw_info = draw_info]),
            alignment, idx,
            F(draw_info.width),
            F(CurWidth(PanelsOf(b0, alignment)[idx + 1])))

---------------------------------------------------------------------------
(* Event router                                                            *)

\* the verbs of a panel visibility command
SetVisible(visible, message) ==
    CASE message = "show"   -> TRUE
      [] message = "hide"   -> FALSE
      [] message = "toggle" -> ~visible

\* Bar::handle_panel_event on a message the pattern matched as
\* <region><idx>.<message>
handle_panel_event(b0, region, idx, message) ==
    LET b1 == [b0 EXCEPT !.log = <<Call("handle_panel_event", region, idx)>>,
                         !.result = "Ok(false)"]
    IN  IF ~Get(PanelsOf(b1, region), idx).some THEN b1
        ELSE IF message \notin {"show", "hide", "toggle"}
        THEN [b1 EXCEPT !.result = "Err"]
        ELSE
        LET b2 == WithPanels(b1, region,
                      [PanelsOf(b1, region) EXCEPT
                          ![idx + 1].visible = SetVisible(@, message)])
        IN  CASE region = "Left"   -> redraw_left(b2)
              [] region = "Center" -> redraw_center_right(b2, TRUE)
              [] region = "Right"  -> redraw_right(b2, TRUE, None)

\* the hooks that show_panels / hide_panels invoke, in left-center-right
\* order: the `fn` of every panel whose draw_info carries one
AllHookCalls(b, fn) ==
    LET of(region) ==
            LET ps   == PanelsOf(b, region)
                idxs == SelectSeq(Indices(Len(ps)),
                            LAMBDA i : /\ ps[i + 1].draw_info.some
                                       /\ ps[i + 1].draw_info[fn])
            IN  [k \in 1..Len(idxs) |-> Call(fn, region, idxs[k])]
    IN  of("Left") \o of("Center") \o of("Right")

\* Bar::show_panels
show_panels(b) == Logged(b, AllHookCalls(b, "show_fn"))

\* Bar::hide_panels
hide_panels(b) == Logged(b, AllHookCalls(b, "hide_fn"))

\* a handler that takes every command for `quit`
handle_ipc_eventMutant(b0, message) == [b0 EXCEPT !.result = "Ok(true)"]

RECURSIVE handle_ipc_event(_, _)
\* Bar::handle_ipc_event
handle_ipc_event(b0, message) ==
    LET b1 == [b0 EXCEPT !.result = "Ok(false)"]
    IN  CASE message = "quit" -> [b1 EXCEPT !.result = "Ok(true)"]
          [] message = "show" ->
                show_panels([b1 EXCEPT !.mapped = TRUE,
                                       !.window_mapped = TRUE])
          [] message = "hide" ->
                hide_panels([b1 EXCEPT !.mapped = TRUE,
                                       !.window_mapped = FALSE])
          [] message = "toggle" ->
                IF b1.mapped THEN handle_ipc_event(b1, "hide")
                ELSE handle_ipc_event(b1, "show")
          [] OTHER -> b1

\* Bar::process_event on an Expose event
process_expose(b) ==
    redraw_bar([b EXCEPT !.log = <<Call("process_event", "Expose", -1)>>,
                         !.result = "Ok"])

\* Bar::send_message on a message without '#' and without '.': a bar-level
\* command
send_bar_message(b, message) ==
    handle_ipc_event([b EXCEPT !.log = <<Call("handle_ipc_event", message, -1)>>],
                     message)


---------------------------------------------------------------------------
(* Strings.  A string is the sequence of its characters, each a            *)
(* one-character string.                                                   *)

\* str::strip_prefix(ch)
strip_prefix(s, ch) ==
    IF s # <<>> /\ s[1] = ch
    THEN [some |-> TRUE, val |-> Tail(s)]
    ELSE None

\* the least element of a nonempty set of integers
Min(S) == CHOOSE m \in S : \A n \in S : m <= n

\* the greatest element of a nonempty set of integers
Max(S) == CHOOSE m \in S : \A n \in S : m >= n

\* the rest of str::split_once once the positions of the delimiter are known
SplitAt(s, hits) ==
    IF hits = {} THEN None
    ELSE [some |-> TRUE,
          val  |-> <<SubSeq(s, 1, Min(hits) - 1),
                     SubSeq(s, Min(hits) + 1, Len(s))>>]

\* str::split_once(ch)
split_once(s, ch) == SplitAt(s, {i \in 1..Len(s) : s[i] = ch})

\* the decimal digits, in order of value
Digits == <<"0", "1", "2", "3", "4", "5", "6", "7", "8", "9">>

IsDigit(c) == \E n \in 1..Len(Digits) : Digits[n] = c

RECURSIVE parse_usize(_)
\* str::parse::<usize> on a nonempty string of digits (the strings here are
\* too short to overflow a usize)
parse_usize(ds) ==
    IF ds = <<>> THEN 0
    ELSE 10 * parse_usize(SubSeq(ds, 1, Len(ds) - 1))
         + (CHOOSE n \in 0..9 : Digits[n + 1] = ds[Len(ds)])

\* REGEX matches at position p with k digits: [lcr], k digits, one
\* character, and at least one more character (`.` matches all but '\n')
RegexMatches(s, p, k) ==
    /\ s[p] \in {"l", "c", "r"}
    /\ p + k + 2 <= Len(s)
    /\ \A j \in 1..k : IsDigit(s[p + j])
    /\ s[p + k + 1] # "\n"
    /\ s[p + k + 2] # "\n"

\* the end of the greedy `.+` that starts at position q
RunEnd(s, q) ==
    Min({i \in q..(Len(s) - 1) : s[i + 1] = "\n"} \cup {Len(s)})

\* the captures of the match of REGEX that starts at p with k digits
CapturesAt(s, p, k) ==
    [some    |-> TRUE,
     region  |-> s[p],
     idx     |-> parse_usize(SubSeq(s, p + 1, p + k)),
     message |-> SubSeq(s, p + k + 2, RunEnd(s, p + k + 2))]

\* the greedy \d+ : the longest run of digits the rest can still match after
LongestAt(s, p) ==
    CapturesAt(s, p, Max({k \in 1..Len(s) : RegexMatches(s, p, k)}))

\* the rest of the search once the positions where REGEX matches are known
FirstOf(s, starts) ==
    IF starts = {} THEN None ELSE LongestAt(s, Min(starts))

\* REGEX.captures_iter(message).next(): the leftmost match of
\* (?<region>[lcr])(?<idx>\d+).(?<message>.+)
Captures(s) ==
    FirstOf(s, {p \in 1..Len(s) :
                   \E k \in 1..Len(s) : RegexMatches(s, p, k)})

\* the words the bar compares messages with
Word(chars) ==
    CASE chars = <<"q", "u", "i", "t">>           -> "quit"
      [] chars = <<"s", "h", "o", "w">>           -> "show"
      [] chars = <<"h", "i", "d", "e">>           -> "hide"
      [] chars = <<"t", "o", "g", "g", "l", "e">> -> "toggle"
      [] OTHER                                    -> "other"

\* the region a capture of [lcr] names
RegionOf(ch) ==
    CASE ch = "l" -> "Left"
      [] ch = "c" -> "Center"
      [] ch = "r" -> "Right"

---------------------------------------------------------------------------
(* IPC messages                                                            *)

\* Event::Action
Action(message) == [tag |-> "Action", message |-> message]

\* EventResponse::Ok
Ok == [tag |-> "Ok"]

\* EventResponse::Err
Err(e) == [tag |-> "Err", err |-> e]

\* the panels of the bar in left-center-right order
AllPanels(b) == b.left_panels \o b.center_panels \o b.right_panels

\* ipc_set.spawn_blocking: one more task on the blocking pool
Spawn(i, task) == [i EXCEPT !.tasks = Append(@, task)]

\* the task that reports an error to the IPC caller
ErrTask(e) ==
    [kind |-> "err", pc |-> "forward", response |-> Err(e),
     endpoint |-> 0, message |-> <<>>, sent |-> FALSE, got |-> "nothing"]

\* the task that delivers an action to a panel and forwards its response
ActionTask(endpoint, message) ==
    [kind |-> "action", pc |-> "clone", response |-> Ok,
     endpoint |-> endpoint, message |-> message, sent |-> FALSE,
     got |-> "nothing"]

\* a choice that takes the first panel named `panel` when there are several
TargetMutant(found, panel) ==
    IF Len(found) = 0
    THEN [ok |-> FALSE, err |-> <<"No panel with name ", panel, " was found">>]
    ELSE IF found[1].endpoint.some
    THEN [ok |-> TRUE, endpoint |-> found[1].endpoint.val]
    ELSE [ok |-> FALSE,
          err |-> <<"The target panel has no associated sender and cannot be messaged">>]

\* the choice of Bar::send_message among the panels named `panel`; an error
\* text is the sequence of its pieces
Target(found, panel) ==
    IF Len(found) = 0
    THEN [ok |-> FALSE, err |-> <<"No panel with name ", panel, " was found">>]
    ELSE IF Len(found) > 1
    THEN [ok |-> FALSE,
          err |-> <<"This panel has multiple instances and cannot be messaged">>]
    ELSE IF found[1].endpoint.some
    THEN [ok |-> TRUE, endpoint |-> found[1].endpoint.val]
    ELSE [ok |-> FALSE,
          err |-> <<"The target panel has no associated sender and cannot be messaged">>]

\* the rest of the panel-addressed branch once the target is chosen
Routed(b, i, message, target) ==
    IF target.ok
    THEN [bar |-> [b EXCEPT !.result = "Ok(false)"],
          ipc |-> Spawn(i, ActionTask(target.endpoint, message))]
    ELSE [bar |-> [b EXCEPT !.result = "Err"],
          ipc |-> Spawn(i, ErrTask(target.err))]

\* Bar::send_message on '<panel>.<message>'
Route(b, i, panel, message) ==
    Routed(b, i, message,
           Target(SelectSeq(AllPanels(b), LAMBDA p : p.name = panel), panel))

\* the rest of Bar::handle_panel_event once the captures are known
Captured(b, caps) ==
    IF caps.some
    THEN handle_panel_event(b, RegionOf(caps.region), caps.idx,
                            Word(caps.message))
    ELSE [b EXCEPT !.log = <<Call("handle_panel_event", "None", -1)>>,
                   !.result = "Ok(false)"]

\* the rest of Bar::send_message once the message is split at the first '.'
Split(b, i, message, dest) ==
    IF dest.some
    THEN Route([b EXCEPT !.log = <<Call("send_message", "panel", -1)>>],
               i, dest.val[1], dest.val[2])
    ELSE [bar |-> send_bar_message(b, Word(message)), ipc |-> i]

\* the rest of Bar::send_message once the prefix '#' is looked for
Stripped(b, i, message, stripped) ==
    IF stripped.some
    THEN [bar |-> Captured(b, Captures(stripped.val)), ipc |-> i]
    ELSE Split(b, i, message, split_once(message, "."))

\* Bar::send_message: the bar and the tasks after it
send_message(b, i, message) ==
    Stripped(b, i, message, strip_prefix(message, "#"))

---------------------------------------------------------------------------
(* The dependence resolver on its own: every slice of up to MaxLen panels  *)
(* is handed to apply_dependence, under either build profile.              *)

\* a nonzero panel width used where only "zero or not" matters
SomeWidth == 4

ResolverDrawInfos ==
    {None}
    \cup {PanelDrawInfo(w, "None", FALSE, FALSE) : w \in {0, SomeWidth}}
    \cup {PanelDrawInfo(SomeWidth, d, FALSE, FALSE) : d \in Dependence \ {"None"}}
    \cup {PanelDrawInfo(0, "Left", FALSE, FALSE)}

ResolverPanels ==
    {Panel(di, <<>>, None, v) : di \in ResolverDrawInfos, v \in BOOLEAN}

ResolverInit ==
    /\ \E n \in 0..MaxLen : slice \in [1..n -> ResolverPanels]
    /\ \E oc \in BOOLEAN : bar = NewBar(0, Margins(0, 0, 0), FALSE, oc)
    /\ statuses = None
    /\ pc = "resolve"
    /\ hook_calls = <<>>
    /\ passes = 0
    /\ ipc = NoIpc

ApplyDependence ==
    /\ pc = "resolve"
    /\ statuses' = [some |-> TRUE,
                    val  |-> apply_dependence(slice, bar.overflow_checks)]
    /\ pc' = "done"
    /\ UNCHANGED <<bar, slice, hook_calls, passes, ipc>>

ResolverNext == ApplyDependence

ResolverSpec == ResolverInit /\ [][ResolverNext]_vars

\* what the specification says of a panel, read off its fields
HasDep(p, d) == p.visible /\ p.draw_info.some /\ p.draw_info.dependence = d

PrimaryShown(panels, i) ==
    /\ i \in 1..Len(panels)
    /\ panels[i].visible
    /\ panels[i].draw_info.some
    /\ panels[i].draw_info.dependence = "None"
    /\ panels[i].draw_info.width # 0

ShouldBeShown(panels, i) ==
    \/ PrimaryShown(panels, i)
    \/ HasDep(panels[i], "Left") /\ PrimaryShown(panels, i - 1)
    \/ HasDep(panels[i], "Right") /\ PrimaryShown(panels, i + 1)
    \/ /\ HasDep(panels[i], "Both")
       /\ PrimaryShown(panels, i - 1)
       /\ PrimaryShown(panels, i + 1)

Completed == pc = "done" /\ ~Panicked(statuses.val)

\* C6: whenever the resolver returns, panel i is marked Shown exactly when
\* it is visible, has a draw_info and either has dependence None and a
\* nonzero width, or depends on neighbours whose primary status is Shown;
\* a Left-dependent panel at index 1 beside a panel without draw_info (or
\* of width 0 and dependence None) at index 0 gives [ZeroWidth, ZeroWidth].
C6_ShownExactlyWhen ==
    Completed =>
        /\ Len(statuses.val) = Len(slice)
        /\ \A i \in 1..Len(slice) :
               (statuses.val[i] = Shown) <=> ShouldBeShown(slice, i)
        /\ ( /\ Len(slice) = 2
             /\ HasDep(slice[2], "Left")
             /\ \/ ~slice[1].draw_info.some
                \/ /\ slice[1].draw_info.dependence = "None"
                   /\ slice[1].draw_info.width = 0 )
           => statuses.val = <<ZeroWidth, ZeroWidth>>

C6_Witness ==
    /\ Completed
    /\ Len(slice) = 3
    /\ HasDep(slice[1], "Right")
    /\ statuses.val[1] = Shown
    /\ HasDep(slice[3], "Left")
    /\ statuses.val[3] = Shown

\* C7: a visible panel at index 0 with dependence Left or Both, and one at
\* the last index with dependence Right or Both, is resolved ZeroWidth and
\* the resolver completes normally, for every slice of length >= 1.
C7_ClampsOutOfRange ==
    (pc = "done" /\ Len(slice) >= 1) =>
        /\ ~Panicked(statuses.val)
        /\ (HasDep(slice[1], "Left") \/ HasDep(slice[1], "Both"))
               => statuses.val[1] = ZeroWidth
        /\ (HasDep(slice[Len(slice)], "Right")
                \/ HasDep(slice[Len(slice)], "Both"))
               => statuses.val[Len(slice)] = ZeroWidth

\* the case of C7: a visible Left-dependent panel at index 0, resolved under
\* overflow checks
C7_Witness ==
    /\ pc = "done"
    /\ Len(slice) >= 1
    /\ HasDep(slice[1], "Left")
    /\ Panicked(statuses.val)

\* C8: a panel with non-None dependence whose relevant neighbour itself
\* has non-None dependence is never resolved Shown, whatever the
\* neighbour's own neighbours are.
DependentNeighbour(panels, i) ==
    /\ i \in 1..Len(panels)
    /\ panels[i].draw_info.some
    /\ panels[i].draw_info.dependence # "None"

C8_NotTransitive ==
    pc = "done" =>
        \A i \in 1..Len(slice) :
            ( \/ HasDep(slice[i], "Left") /\ DependentNeighbour(slice, i - 1)
              \/ HasDep(slice[i], "Right") /\ DependentNeighbour(slice, i + 1)
              \/ /\ HasDep(slice[i], "Both")
                 /\ \/ DependentNeighbour(slice, i - 1)
                    \/ DependentNeighbour(slice, i + 1) )
            => statuses.val[i] # Shown

\* a chain: panel 1 is Shown, panel 2 depends on it and panel 3 depends on
\* panel 2
C8_Witness ==
    /\ Completed
    /\ Len(slice) = 3
    /\ PrimaryShown(slice, 1)
    /\ HasDep(slice[2], "Left")
    /\ HasDep(slice[3], "Left")
    /\ statuses.val = <<Shown, Shown, Dependent("Left")>>


---------------------------------------------------------------------------
(* The bar in operation: a bar with two left panels, one center panel and  *)
(* one right panel, all visible at first, driven by panel updates,         *)
(* visibility commands and Expose events in any order.  No panel at index  *)
(* 0 is given a Left dependence here, so the build profile does not        *)
(* matter.                                                                 *)

\* width of the bar, in pixels
BarWidth == 20

\* the margins, in pixels
MarginLeft == 1

MarginInternal == 1

MarginRight == 2

\* the widths panels report
Narrow == 3

Wide == 8

\* the draw_infos each panel may deliver: the first left panel is empty
\* (width 0) or wide, the second is narrow and may depend on the first, the
\* center panel is narrow or wide and the right panel is empty or wide
DrawInfos(alignment, idx) ==
    CASE alignment = "Left" /\ idx = 0 ->
            {PanelDrawInfo(w, "None", TRUE, TRUE) : w \in {0, Wide}}
      [] alignment = "Left" /\ idx = 1 ->
            {PanelDrawInfo(Narrow, d, TRUE, TRUE) : d \in {"None", "Left"}}
      [] alignment = "Center" ->
            {PanelDrawInfo(w, "None", TRUE, TRUE) : w \in {Narrow, Wide}}
      [] alignment = "Right" ->
            {PanelDrawInfo(w, "None", TRUE, TRUE) : w \in {0, Wide}}

\* the panels registered after Bar::new, before any update
Registered(b, vl0, vl1, vc0, vr0) ==
    [b EXCEPT !.left_panels   = <<Panel(None, <<>>, None, vl0),
                                  Panel(None, <<>>, None, vl1)>>,
              !.center_panels = <<Panel(None, <<>>, None, vc0)>>,
              !.right_panels  = <<Panel(None, <<>>, None, vr0)>>]

Init ==
    /\ bar = Registered(
                 NewBar(BarWidth,
                        Margins(MarginLeft, MarginInternal, MarginRight),
                        FALSE, FALSE),
                 TRUE, TRUE, TRUE, TRUE)
    /\ slice = <<>>
    /\ statuses = None
    /\ pc = "run"
    /\ hook_calls = <<>>
    /\ passes = 0
    /\ ipc = NoIpc

Running == pc = "run" /\ ~bar.panicked

\* what remains of an operation once its calls are no longer of interest
Forget(b) == [b EXCEPT !.log = <<>>, !.result = "none"]

\* the bar after an operation, with or without the record of its calls
Kept(b, keep) == IF keep THEN b ELSE Forget(b)

\* the draw_infos of that bar: the first left panel is empty, or wide and
\* without a hide_fn, the second depends on it, the center and the right
\* panel have one width each
TraceInfos(alignment, idx) ==
    CASE alignment = "Left" /\ idx = 0 ->
            {PanelDrawInfo(0, "None", TRUE, TRUE),
             PanelDrawInfo(Wide, "None", TRUE, FALSE)}
      [] alignment = "Left" /\ idx = 1 ->
            {PanelDrawInfo(Narrow, "Left", TRUE, TRUE)}
      [] alignment = "Center" ->
            {PanelDrawInfo(Wide, "None", TRUE, TRUE)}
      [] alignment = "Right" ->
            {PanelDrawInfo(Narrow, "None", TRUE, TRUE)}

\* a panel's stream yields one of its draw_infos
UpdatePanel(keep) ==
    /\ Running
    /\ \E alignment \in Alignment :
       \E idx \in 0..(Len(PanelsOf(bar, alignment)) - 1) :
       \E draw_info \in IF keep THEN TraceInfos(alignment, idx)
                                  ELSE DrawInfos(alignment, idx) :
          bar' = Kept(update_panel(bar, alignment, idx, draw_info), keep)
    /\ UNCHANGED <<slice, statuses, pc, hook_calls, passes, ipc>>

\* the IPC line '#<region><idx>.<message>' for a panel the region has
PanelEvent(messages, keep) ==
    /\ Running
    /\ \E region \in Alignment :
       \E idx \in 0..(Len(PanelsOf(bar, region)) - 1) :
       \E message \in messages :
          bar' = Kept(handle_panel_event(bar, region, idx, message), keep)
    /\ UNCHANGED <<slice, statuses, pc, hook_calls, passes, ipc>>

\* an Expose event from the X server
Expose(keep) ==
    /\ Running
    /\ bar' = Kept(process_expose(bar), keep)
    /\ UNCHANGED <<slice, statuses, pc, hook_calls, passes, ipc>>

\* a bar-level IPC command; `quit` ends the event loop
IpcEvent ==
    /\ Running
    /\ \E message \in {"quit", "show", "hide", "toggle"} :
          /\ bar' = send_bar_message(bar, message)
          /\ pc' = IF bar'.result = "Ok(true)" THEN "quit" ELSE pc
    /\ UNCHANGED <<slice, statuses, hook_calls, passes, ipc>>

Next ==
    \/ UpdatePanel(FALSE)
    \/ PanelEvent({"show", "hide", "toggle"}, FALSE)
    \/ Expose(FALSE)

Spec == Init /\ [][Next]_vars


---------------------------------------------------------------------------
(* The same bar with the calls of every operation kept in bar.log, driven  *)
(* also by bar-level commands.                                             *)

TraceNext ==
    \/ UpdatePanel(TRUE)
    \/ PanelEvent({"show", "hide"}, TRUE)
    \/ Expose(TRUE)
    \/ IpcEvent

TraceSpec == Init /\ [][TraceNext]_vars


---------------------------------------------------------------------------
(* Layout invariants                                                       *)

\* C1: after any successful repaint,
\* extents.left <= extents.center.start <= extents.center.cursor.
C1_LeftStartCursor ==
    ~bar.panicked =>
        /\ bar.extents.left <= bar.extents.center[1]
        /\ bar.extents.center[1] <= bar.extents.center[2]

\* C2: after any successful repaint that leaves the center state Center,
\* Left or Right, both gaps between adjacent regions are at least
\* margins.internal.
C2_GapsAtLeastMargin ==
    (~bar.panicked /\ bar.center_state \in {"Center", "Left", "Right"}) =>
        /\ bar.extents.center[1] - bar.extents.left >= bar.margins.internal
        /\ bar.extents.right - bar.extents.center[2] >= bar.margins.internal

\* C3 as claimed: after every successful layout pass,
\* extents.center.cursor <= extents.right <= width.
C3_RightWithinBar ==
    ~bar.panicked =>
        /\ bar.extents.center[2] <= bar.extents.right
        /\ bar.extents.right <= F(bar.width)

\* C3 as amended: extents.center.cursor <= extents.right always, and
\* extents.right <= width unless the right region is pushed against the
\* center, where extents.right = extents.center.cursor + margins.internal.
C3_RightAfterCursor ==
    ~bar.panicked =>
        /\ bar.extents.center[2] <= bar.extents.right
        /\ \/ bar.extents.right <= F(bar.width)
           \/ bar.extents.right = bar.extents.center[2] + bar.margins.internal

\* the center overflows and the right region, pushed against it, starts
\* past the right edge of the bar
C3_Witness ==
    /\ ~bar.panicked
    /\ bar.center_state = "Unknown"
    /\ bar.right_panels[1].last_status
    /\ bar.extents.right > F(bar.width)


---------------------------------------------------------------------------
(* The latch on its own: a slice of panels goes through latch passes, each *)
(* over the resolver's output after some visibility flags have changed.    *)

LatchDrawInfos ==
    {None, PanelDrawInfo(SomeWidth, "Left", TRUE, TRUE)}
    \cup {PanelDrawInfo(SomeWidth, "None", s, h) : s, h \in BOOLEAN}

LatchInit ==
    /\ \E n \in 1..(MaxLen - 1) :
          slice \in [1..n -> {Panel(di, <<>>, None, TRUE) : di \in LatchDrawInfos}]
    /\ bar = NewBar(0, Margins(0, 0, 0), FALSE, FALSE)
    /\ statuses = None
    /\ pc = "latch"
    /\ hook_calls = [i \in 1..Len(slice) |-> [show_fn |-> 0, hide_fn |-> 0]]
    /\ passes = 0
    /\ ipc = NoIpc

\* the number of calls of `fn` for index idx in a call sequence
CountCalls(cs, fn, idx) ==
    Cardinality({k \in 1..Len(cs) : cs[k].fn = fn /\ cs[k].idx = idx})

LatchPass ==
    /\ pc = "latch"
    /\ passes < MaxPasses
    /\ \E vis \in [1..Len(slice) -> BOOLEAN] :
          LET panels == [i \in 1..Len(slice) |->
                            [slice[i] EXCEPT !.visible = vis[i]]]
              sts    == apply_dependence(panels, bar.overflow_checks)
              ev     == process_show_hide_events(panels, sts, "Left")
          IN  /\ slice' = ev.panels
              /\ statuses' = [some |-> TRUE, val |-> sts]
              /\ hook_calls' = [i \in 1..Len(slice) |->
                    [show_fn |-> hook_calls[i].show_fn
                                 + CountCalls(ev.calls, "show_fn", i - 1),
                     hide_fn |-> hook_calls[i].hide_fn
                                 + CountCalls(ev.calls, "hide_fn", i - 1)]]
    /\ passes' = passes + 1
    /\ UNCHANGED <<bar, pc, ipc>>

LatchNext == LatchPass

LatchSpec == LatchInit /\ [][LatchNext]_vars

\* show_fn invocations minus hide_fn invocations of panel i is 0 or 1, and
\* 1 exactly when its last_status is true
Balanced(i) ==
    /\ hook_calls[i].show_fn - hook_calls[i].hide_fn \in {0, 1}
    /\ (hook_calls[i].show_fn - hook_calls[i].hide_fn = 1) <=> slice[i].last_status

\* C9 as claimed: over any sequence of latch passes, for each panel with a
\* present draw_info, show_fn invocations minus hide_fn invocations is 0 or
\* 1, and 1 exactly when last_status is true.
C9_LatchBalance ==
    \A i \in 1..Len(slice) : slice[i].draw_info.some => Balanced(i)

\* C9 as amended: the same for each panel whose draw_info carries both a
\* show_fn and a hide_fn.
C9_LatchBalanceBothHooks ==
    \A i \in 1..Len(slice) :
        ( /\ slice[i].draw_info.some
          /\ slice[i].draw_info.show_fn
          /\ slice[i].draw_info.hide_fn ) => Balanced(i)

\* a panel with both hooks that was shown, hidden and shown again
C9_Witness ==
    \E i \in 1..Len(slice) :
        /\ slice[i].draw_info.some
        /\ slice[i].draw_info.show_fn
        /\ slice[i].draw_info.hide_fn
        /\ hook_calls[i] = [show_fn |-> 2, hide_fn |-> 1]
        /\ slice[i].last_status


---------------------------------------------------------------------------
(* The scenario of the specification: a bar of width 1000 with margins     *)
(* 10/10/5, left panels A and B, center panel C and right panel D.  The    *)
(* four first updates arrive in any order, then B grows to 700, then the   *)
(* center panel is hidden by '#c0.hide'.  Expose events may come between.  *)

\* the first draw_info of the panel at (alignment, idx)
FirstInfo(alignment, idx) ==
    CASE alignment = "Left" /\ idx = 0 -> PanelDrawInfo(100, "None", TRUE, TRUE)
      [] alignment = "Left" /\ idx = 1 -> PanelDrawInfo(50, "None", TRUE, TRUE)
      [] alignment = "Center"          -> PanelDrawInfo(200, "None", TRUE, TRUE)
      [] alignment = "Right"           -> PanelDrawInfo(80, "None", TRUE, TRUE)

ScenarioInit ==
    /\ \E oc \in BOOLEAN, rs \in BOOLEAN :
          bar = Registered(
                    NewBar(1000, Margins(10, 5, 10), rs, oc),
                    TRUE, TRUE, TRUE, TRUE)
    /\ slice = <<>>
    /\ statuses = None
    /\ pc = "arriving"
    /\ hook_calls = <<>>
    /\ passes = 0
    /\ ipc = NoIpc

AllArrived(b) ==
    \A alignment \in Alignment :
        \A i \in 1..Len(PanelsOf(b, alignment)) :
            PanelsOf(b, alignment)[i].draw_info.some

\* a panel delivers its first update
ScenarioFirstUpdate ==
    /\ pc = "arriving"
    /\ \E alignment \in Alignment :
       \E idx \in 0..(Len(PanelsOf(bar, alignment)) - 1) :
          /\ ~PanelsOf(bar, alignment)[idx + 1].draw_info.some
          /\ bar' = update_panel(bar, alignment, idx, FirstInfo(alignment, idx))
    /\ pc' = IF AllArrived(bar') THEN "placed" ELSE pc
    /\ UNCHANGED <<slice, statuses, hook_calls, passes, ipc>>

\* B is updated to width 700
ScenarioWidenB ==
    /\ pc = "placed"
    /\ bar' = update_panel(bar, "Left", 1,
                           PanelDrawInfo(700, "None", TRUE, TRUE))
    /\ pc' = "widened"
    /\ UNCHANGED <<slice, statuses, hook_calls, passes, ipc>>

\* the IPC line '#c0.hide'
ScenarioHideC ==
    /\ pc = "widened"
    /\ bar' = handle_panel_event(bar, "Center", 0, "hide")
    /\ pc' = "hidden"
    /\ UNCHANGED <<slice, statuses, hook_calls, passes, ipc>>

\* an Expose event at any time
ScenarioExpose ==
    /\ bar' = process_expose(bar)
    /\ UNCHANGED <<slice, statuses, pc, hook_calls, passes, ipc>>

ScenarioNext ==
    \/ ScenarioFirstUpdate
    \/ ScenarioWidenB
    \/ ScenarioHideC
    \/ ScenarioExpose

ScenarioSpec == ScenarioInit /\ [][ScenarioNext]_vars

XOf(alignment, idx) == PanelsOf(bar, alignment)[idx + 1].x

\* C4: once the four panels have delivered their first updates, in any
\* order, A.x = 10, B.x = 110, C.x = 400, D.x = 910, center.start = 400 and
\* the state is Center; after B's update to width 700, center.start = 815
\* and the state is Unknown.
C4_ScenarioPlacement ==
    /\ pc = "placed" =>
          /\ XOf("Left", 0) = Px(10)
          /\ XOf("Left", 1) = Px(110)
          /\ XOf("Center", 0) = Px(400)
          /\ XOf("Right", 0) = Px(910)
          /\ bar.extents.center[1] = Px(400)
          /\ bar.center_state = "Center"
    /\ pc = "widened" =>
          /\ bar.extents.center[1] = Px(815)
          /\ bar.center_state = "Unknown"

C4_Witness ==
    /\ pc = "widened"
    /\ bar.extents.left = Px(810)
    /\ bar.left_panels[2].draw_info.width = 700
    /\ bar.left_panels[2].last_status

\* C5 as claimed: '#c0.hide' then makes the center panel not Shown and the
\* re-layout gives center width 0, state Center, center.start = 500 and
\* D.x = 910.
C5_HiddenCenter ==
    pc = "hidden" =>
        /\ ~bar.center_panels[1].last_status
        /\ bar.extents.center[2] - bar.extents.center[1] = 0
        /\ bar.center_state = "Center"
        /\ bar.extents.center[1] = Px(500)
        /\ XOf("Right", 0) = Px(910)

\* C5 as amended: the wide left region presses the empty center block to
\* the right: center width 0, state Right, center.start = 815, D.x = 910.
C5_HiddenCenterPressed ==
    pc = "hidden" =>
        /\ ~bar.center_panels[1].last_status
        /\ bar.extents.center[2] - bar.extents.center[1] = 0
        /\ bar.center_state = "Right"
        /\ bar.extents.center[1] = Px(815)
        /\ XOf("Right", 0) = Px(910)

C5_Witness ==
    /\ pc = "hidden"
    /\ ~bar.center_panels[1].visible
    /\ bar.extents.left = Px(810)
    /\ bar.log[1] = Call("handle_panel_event", "Center", 0)


---------------------------------------------------------------------------
(* Hooks                                                                   *)

\* the number of calls of `fn` for the panel (region, idx) in a log
Fired(log, fn, region, idx) ==
    Cardinality({k \in 1..Len(log) :
                    log[k] = Call(fn, region, idx)})

\* the panels of the bar, as (region, 0-based index)
PanelIds(b) ==
    {<<region, idx>> \in Alignment \X (0..MaxLen) :
        idx < Len(PanelsOf(b, region))}

PanelAt(b, id) == PanelsOf(b, id[1])[id[2] + 1]

---------------------------------------------------------------------------
(* The repaint dispatcher against a full repaint                           *)

\* every panel's x, the extents and the center state of a bar
LayoutOf(b) ==
    [left_x       |-> [i \in 1..Len(b.left_panels) |-> b.left_panels[i].x],
     center_x     |-> [i \in 1..Len(b.center_panels) |-> b.center_panels[i].x],
     right_x      |-> [i \in 1..Len(b.right_panels) |-> b.right_panels[i].x],
     extents      |-> b.extents,
     center_state |-> b.center_state]

\* the operation that led to the present state is `fn`
LastOp(b, fn) == b.log # <<>> /\ b.log[1].fn = fn

\* C11: after update_panel returns successfully, every panel's x, the
\* extents and the center state equal what redraw_bar of the same panel
\* state produces, whichever repaint scope was chosen.
C11_UpdateMatchesFullRepaint ==
    (LastOp(bar, "update_panel") /\ ~bar.panicked) =>
        LayoutOf(bar) = LayoutOf(redraw_bar(bar))

\* the slot an update_panel call addressed, and the width it had before
UpdatedId(b) == <<b.log[1].region, b.log[1].idx>>

\* the hook and draw calls of an operation other than those in `allowed`
OtherCalls(log, allowed) ==
    {k \in 1..Len(log) : /\ log[k].fn \in {"show_fn", "hide_fn", "draw_fn"}
                         /\ log[k] \notin allowed}

\* C12: an update_panel call whose new width equals the slot's old width
\* changes no panel's x, no extents and not the center state, and invokes
\* no show or hide hook; only the slot's draw_info is replaced and only that
\* panel's draw_fn is invoked.
C12_SameWidthFrame ==
    [][(/\ LastOp(bar', "update_panel")
        /\ CurWidth(PanelAt(bar', UpdatedId(bar')))
               = CurWidth(PanelAt(bar, UpdatedId(bar'))))
       => /\ LayoutOf(bar') = LayoutOf(bar)
          /\ \A id \in PanelIds(bar) :
                /\ PanelAt(bar', id).visible = PanelAt(bar, id).visible
                /\ PanelAt(bar', id).last_status = PanelAt(bar, id).last_status
                /\ id # UpdatedId(bar') =>
                       PanelAt(bar', id).draw_info = PanelAt(bar, id).draw_info
          /\ OtherCalls(bar'.log,
                 {Call("draw_fn", bar'.log[1].region, bar'.log[1].idx)}) = {}
          /\ Fired(bar'.log, "draw_fn", bar'.log[1].region, bar'.log[1].idx)
                 = 1]_vars

\* the wide first left panel has just been given a draw_info of the same
\* width and was drawn alone
C12_Witness ==
    /\ LastOp(bar, "update_panel")
    /\ bar.log = <<Call("update_panel", "Left", 0),
                   Call("redraw_one", "Left", 0),
                   Call("draw_fn", "Left", 0)>>
    /\ bar.left_panels[1].draw_info.width = Wide
    /\ bar.left_panels[1].last_status
    /\ bar.left_panels[1].x = bar.margins.left


---------------------------------------------------------------------------
(* Panel visibility commands                                               *)

\* the visible flags of a bar, region by region
VisibleOf(b) ==
    [region \in Alignment |->
        [i \in 1..Len(PanelsOf(b, region)) |-> PanelsOf(b, region)[i].visible]]

\* the visible flags of b with that of panel `id` set to v
VisibleWith(b, id, v) ==
    [VisibleOf(b) EXCEPT ![id[1]][id[2] + 1] = v]

\* '#<r><i>.toggle' applied twice
ToggledTwice(b, id) ==
    handle_panel_event(handle_panel_event(b, id[1], id[2], "toggle"),
                       id[1], id[2], "toggle")

\* '#<r><i>.hide' sets the panel's visible flag to false and '#<r><i>.show'
\* sets it to true, touching no other panel's flag
C13_ShowHideSetFlag ==
    \A id \in PanelIds(bar) :
        /\ VisibleOf(handle_panel_event(bar, id[1], id[2], "hide"))
               = VisibleWith(bar, id, FALSE)
        /\ VisibleOf(handle_panel_event(bar, id[1], id[2], "show"))
               = VisibleWith(bar, id, TRUE)

\* '#<r><i>.toggle' applied twice restores every visible flag
C13_ToggleTwiceFlags ==
    \A id \in PanelIds(bar) : VisibleOf(ToggledTwice(bar, id)) = VisibleOf(bar)

\* C13: for every region and existing index, '#<r><i>.hide' sets the
\* panel's visible flag to false and '#<r><i>.show' sets it to true,
\* touching no other flag, and '#<r><i>.toggle' applied twice restores the
\* visible flag, every panel's x and the extents.
C13_VisibilityRoundTrip ==
    /\ C13_ShowHideSetFlag
    /\ C13_ToggleTwiceFlags
    /\ \A id \in PanelIds(bar) :
          LET after == LayoutOf(ToggledTwice(bar, id))
          IN  /\ after.left_x = LayoutOf(bar).left_x
              /\ after.center_x = LayoutOf(bar).center_x
              /\ after.right_x = LayoutOf(bar).right_x
              /\ after.extents = bar.extents

---------------------------------------------------------------------------
(* Bar-level commands: the mapped flag                                     *)

\* C15: after any sequence of bar-level show, hide and toggle commands the
\* mapped flag equals whether the window is mapped at the X server.
C15_MappedTracksWindow == bar.mapped = bar.window_mapped

---------------------------------------------------------------------------
(* Channel endpoints and the blocking tasks spawned by Bar::send_message   *)

\* Some(v)
Some(v) == [some |-> TRUE, val |-> v]

\* the bar's end of a panel's ChannelEndpoint behind its Mutex: the events
\* sent and not yet taken by the panel, the responses the panel sent and
\* the bar has not yet received, whether the panel still holds its own end,
\* and the task that holds the Mutex (0: nobody)
Endpoint == [events |-> <<>>, replies |-> <<>>, open |-> TRUE, lock |-> 0]

\* UnboundedSender::send on the endpoint: it fails once the panel has
\* dropped its receiver
Send(i, e, event) ==
    IF i.endpoints[e].open
    THEN [ok |-> TRUE,
          ipc |-> [i EXCEPT !.endpoints[e].events = Append(@, event)]]
    ELSE [ok |-> FALSE, ipc |-> i]

\* the task is at `at` and the Mutex of its endpoint is free
AtFree(i, k, at) ==
    /\ i.tasks[k].pc = at
    /\ i.endpoints[i.tasks[k].endpoint].lock = 0

\* `let send = endpoint.lock().unwrap().send.clone();`
TaskClone(i, k) == [i EXCEPT !.tasks[k].pc = "send"]

\* what the task does with the outcome of send.send(Event::Action(message))
TaskSent(i, k, sent) ==
    IF sent.ok
    THEN [sent.ipc EXCEPT !.tasks[k].pc = "lock", !.tasks[k].sent = TRUE]
    ELSE [i EXCEPT !.tasks[k].pc = "forward",
                   !.tasks[k].got = "send failed",
                   !.tasks[k].response = Err(<<"channel closed">>)]

\* `send.send(Event::Action(message))`
TaskSend(i, k) ==
    TaskSent(i, k, Send(i, i.tasks[k].endpoint, Action(i.tasks[k].message)))

\* `endpoint.lock().unwrap()` of the second statement: the guard lives until
\* blocking_recv has returned
TaskLock(i, k) ==
    [i EXCEPT !.tasks[k].pc = "recv", !.endpoints[i.tasks[k].endpoint].lock = k]

\* blocking_recv can return: a response is queued or the panel's sender is
\* gone
CanRecv(i, k) ==
    /\ i.tasks[k].pc = "recv"
    /\ \/ i.endpoints[i.tasks[k].endpoint].replies # <<>>
       \/ ~i.endpoints[i.tasks[k].endpoint].open

\* a task that reports success whatever the panel answered
TaskRecvMutant(i, k) ==
    [i EXCEPT !.tasks[k].pc = "forward",
              !.tasks[k].got = "response",
              !.tasks[k].response = Ok,
              !.endpoints[i.tasks[k].endpoint].replies =
                  IF @ = <<>> THEN @ ELSE Tail(@),
              !.endpoints[i.tasks[k].endpoint].lock = 0]

\* `.recv.blocking_recv().unwrap_or(EventResponse::Ok)` and the release of
\* the Mutex
TaskRecv(i, k) ==
    LET e == i.tasks[k].endpoint
    IN  IF i.endpoints[e].replies # <<>>
        THEN [i EXCEPT !.tasks[k].pc = "forward",
                       !.tasks[k].got = "response",
                       !.tasks[k].response = Head(i.endpoints[e].replies),
                       !.endpoints[e].replies = Tail(@),
                       !.endpoints[e].lock = 0]
        ELSE [i EXCEPT !.tasks[k].pc = "forward",
                       !.tasks[k].got = "closed",
                       !.tasks[k].response = Ok,
                       !.endpoints[e].lock = 0]

\* `ipc_send.send(response)?` on the sender handed over with message k
TaskForward(i, k) ==
    [i EXCEPT !.tasks[k].pc = "done",
              !.caller = Append(@, [of |-> k, response |-> i.tasks[k].response])]

---------------------------------------------------------------------------
(* A bar with named panels, driven by IPC lines while the spawned tasks    *)
(* and the panels run.                                                     *)

\* most tasks spawned on ipc_set in one behaviour
MaxTasks == 1

\* left: `a` (endpoint 1) and `b` (endpoint 2); center: `m` without
\* endpoint; right: a second `a` without endpoint
IpcPanels(b) ==
    [b EXCEPT
        !.left_panels =
            <<Panel(PanelDrawInfo(Narrow, "None", TRUE, TRUE), <<"a">>,
                    Some(1), TRUE),
              Panel(PanelDrawInfo(Narrow, "None", TRUE, TRUE), <<"b">>,
                    Some(2), TRUE)>>,
        !.center_panels =
            <<Panel(PanelDrawInfo(Wide, "None", TRUE, TRUE), <<"m">>,
                    None, TRUE)>>,
        !.right_panels =
            <<Panel(PanelDrawInfo(Narrow, "None", TRUE, TRUE), <<"a">>,
                    None, TRUE)>>]

IpcInit ==
    /\ bar = IpcPanels(NewBar(BarWidth,
                              Margins(MarginLeft, MarginInternal, MarginRight),
                              FALSE, FALSE))
    /\ slice = <<>>
    /\ statuses = None
    /\ pc = "run"
    /\ hook_calls = <<>>
    /\ passes = 0
    /\ ipc = [NoIpc EXCEPT !.endpoints = <<Endpoint, Endpoint>>]

\* the lines the IPC socket delivers: bar-level commands, known and
\* unknown; panel visibility commands, well-formed and not; panel-addressed
\* actions for a unique panel with endpoint (b), a duplicated name (a), a
\* panel without endpoint (m), no panel (the empty name)
IpcLines ==
    {<<"q", "u", "i", "t">>,
     <<"s", "h", "o", "w">>,
     <<"h", "i", "d", "e">>,
     <<"t", "o", "g", "g", "l", "e">>,
     <<"q", "u", "i", "t", "s">>,
     <<"#", "q", "u", "i", "t">>,
     <<"#", "l", "0", ".", "h", "i", "d", "e">>,
     <<"#", "l", "0", ".", "q", "u", "i", "t">>,
     <<"#", "r", "7", ".", "h", "i", "d", "e">>,
     <<"b", ".", "q", "u", "i", "t">>,
     <<"a", ".", "g", "o">>,
     <<"m", ".", "g", "o">>,
     <<".", "q", "u", "i", "t">>}

\* the responses a panel may give to an action
Responses == {Ok, Err(<<"failed">>)}

\* the event loop takes one line from the IPC socket; `quit` ends the loop
SendMessage ==
    /\ Running
    /\ \E message \in IpcLines :
       \E out \in {send_message(bar,
                       [ipc EXCEPT !.input = [kind |-> "line",
                                              message |-> message,
                                              parity |-> ~@.parity]],
                       message)} :
          /\ Len(out.ipc.tasks) <= MaxTasks
          /\ bar' = out.bar
          /\ ipc' = out.ipc
          /\ pc' = IF out.bar.result = "Ok(true)" THEN "quit" ELSE pc
    /\ UNCHANGED <<slice, statuses, hook_calls, passes>>

\* a step of a task that changes the tasks and endpoints to `next`
TaskStep(next) ==
    /\ ipc' = next
    /\ UNCHANGED <<bar, slice, statuses, pc, hook_calls, passes>>

Clone ==
    \E k \in 1..Len(ipc.tasks) :
        AtFree(ipc, k, "clone") /\ TaskStep(TaskClone(ipc, k))

SendAction ==
    \E k \in 1..Len(ipc.tasks) :
        ipc.tasks[k].pc = "send" /\ TaskStep(TaskSend(ipc, k))

Lock ==
    \E k \in 1..Len(ipc.tasks) :
        AtFree(ipc, k, "lock") /\ TaskStep(TaskLock(ipc, k))

Recv ==
    \E k \in 1..Len(ipc.tasks) :
        CanRecv(ipc, k) /\ TaskStep(TaskRecv(ipc, k))

Forward ==
    \E k \in 1..Len(ipc.tasks) :
        ipc.tasks[k].pc = "forward" /\ TaskStep(TaskForward(ipc, k))

\* a panel takes the next event from its endpoint and answers an action
PanelHandles ==
    /\ \E e \in 1..Len(ipc.endpoints) :
       \E r \in Responses :
          /\ ipc.endpoints[e].open
          /\ ipc.endpoints[e].events # <<>>
          /\ ipc' = [ipc EXCEPT
                        !.endpoints[e].events = Tail(@),
                        !.endpoints[e].replies =
                            IF Head(ipc.endpoints[e].events).tag = "Action"
                            THEN Append(@, r) ELSE @]
    /\ UNCHANGED <<bar, slice, statuses, pc, hook_calls, passes>>

\* a panel's stream ends and its end of the channel is dropped
PanelDrops ==
    /\ \E e \in 1..Len(ipc.endpoints) :
          /\ ipc.endpoints[e].open
          /\ ipc' = [ipc EXCEPT !.endpoints[e].open = FALSE,
                                !.endpoints[e].events = <<>>]
    /\ UNCHANGED <<bar, slice, statuses, pc, hook_calls, passes>>

IpcNext ==
    \/ SendMessage
    \/ Clone
    \/ SendAction
    \/ Lock
    \/ Recv
    \/ Forward
    \/ PanelHandles
    \/ PanelDrops

IpcSpec == IpcInit /\ [][IpcNext]_vars

---------------------------------------------------------------------------
(* IPC lines                                                               *)

\* the step is the handling of one IPC line by the event loop
LineStep ==
    /\ ipc'.input.kind = "line"
    /\ ipc'.input.parity # ipc.input.parity

\* the line is a bar-level command other than quit, show, hide and toggle
UnknownBarLevel(line) ==
    /\ \A k \in 1..Len(line) : line[k] # "."
    /\ Len(line) > 0 => line[1] # "#"
    /\ line \notin {<<"q", "u", "i", "t">>, <<"s", "h", "o", "w">>,
                    <<"h", "i", "d", "e">>, <<"t", "o", "g", "g", "l", "e">>}

\* C14: send_message returns true exactly when the line is `quit`; every
\* other line (visibility commands, panel-addressed messages, show, hide,
\* toggle, unknown commands) returns false or an error, and an unknown
\* bar-level command changes no bar state, spawns no task and invokes no
\* hook.
C14_QuitOnly ==
    [][LineStep =>
          /\ bar'.result = "Ok(true)" <=> ipc'.input.message = <<"q", "u", "i", "t">>
          /\ UnknownBarLevel(ipc'.input.message) =>
                /\ Forget(bar') = Forget(bar)
                /\ Len(bar'.log) = 1
                /\ ipc'.tasks = ipc.tasks
                /\ bar'.result = "Ok(false)"]_vars

\* `quit` has ended the loop after a panel-addressed `b.quit` and an
\* unknown command had not
C14_Witness ==
    /\ pc = "quit"
    /\ bar.result = "Ok(true)"
    /\ ipc.input.message = <<"q", "u", "i", "t">>
    /\ \E k \in 1..Len(ipc.tasks) :
          ipc.tasks[k].message = <<"q", "u", "i", "t">>

---------------------------------------------------------------------------
(* Panel-addressed IPC messages                                            *)

\* the panels named `name`, as positions in left-center-right order
Named(b, name) ==
    {k \in 1..Len(AllPanels(b)) : AllPanels(b)[k].name = name}

\* the line is '<name>.<action>' and cannot be routed: no panel, several
\* panels, or one panel without endpoint has that name
Rejected(b, line) ==
    /\ Len(line) > 0 => line[1] # "#"
    /\ split_once(line, ".").some
    /\ \/ Cardinality(Named(b, split_once(line, ".").val[1])) # 1
       \/ \E k \in Named(b, split_once(line, ".").val[1]) :
              ~AllPanels(b)[k].endpoint.some

\* the text the IPC caller is given for such a line
RejectionText(b, name) ==
    IF Named(b, name) = {}
    THEN <<"No panel with name ", name, " was found">>
    ELSE IF Cardinality(Named(b, name)) > 1
    THEN <<"This panel has multiple instances and cannot be messaged">>
    ELSE <<"The target panel has no associated sender and cannot be messaged">>

\* the events delivered to the panels and not yet taken
Undelivered(i) == [e \in 1..Len(i.endpoints) |-> i.endpoints[e].events]

\* C16: a panel-addressed line whose name matches no panel, several panels
\* or a panel without endpoint spawns one task whose only effect is to send
\* EventResponse::Err with the matching text to the IPC caller; the line
\* delivers no Event on any endpoint and changes no panel or layout state.
C16_RejectedLine ==
    [][/\ (LineStep /\ Rejected(bar, ipc'.input.message)) =>
            /\ Forget(bar') = Forget(bar)
            /\ bar'.result = "Err"
            /\ ipc'.endpoints = ipc.endpoints
            /\ ipc'.caller = ipc.caller
            /\ ipc'.tasks =
                  Append(ipc.tasks,
                         ErrTask(RejectionText(bar,
                             split_once(ipc'.input.message, ".").val[1])))
       /\ \A k \in 1..Len(ipc.tasks) :
             (ipc.tasks[k].kind = "err" /\ ipc'.tasks[k] # ipc.tasks[k]) =>
                 /\ ipc'.tasks[k].pc = "done"
                 /\ ipc'.caller =
                       Append(ipc.caller,
                              [of |-> k, response |-> ipc.tasks[k].response])
                 /\ ipc.tasks[k].response.tag = "Err"
                 /\ Undelivered(ipc') = Undelivered(ipc)]_vars

\* the caller of `a.go` has been told that `a` has multiple instances and
\* no panel was sent anything
C16_Witness ==
    /\ ipc.input.kind = "line"
    /\ ipc.input.message = <<"a", ".", "g", "o">>
    /\ ipc.caller =
          <<[of |-> 1,
             response |-> Err(<<"This panel has multiple instances and cannot be messaged">>)]>>
    /\ \A e \in 1..Len(ipc.endpoints) : ipc.endpoints[e].events = <<>>

---------------------------------------------------------------------------
(* Routed IPC actions                                                      *)

\* the line is '<name>.<action>' for exactly one panel, which has an endpoint
Routable(b, line) ==
    /\ Len(line) > 0 => line[1] # "#"
    /\ split_once(line, ".").some
    /\ Cardinality(Named(b, split_once(line, ".").val[1])) = 1
    /\ \A k \in Named(b, split_once(line, ".").val[1]) :
           AllPanels(b)[k].endpoint.some

\* the endpoint of the panel named `name`
EndpointOf(b, name) ==
    AllPanels(b)[CHOOSE k \in Named(b, name) : TRUE].endpoint.val

\* the responses forwarded to the sender of the k-th spawned task
Forwarded(i, k) == SelectSeq(i.caller, LAMBDA c : c.of = k)

\* a routable line spawns the task for Action(suffix) on the panel's
\* endpoint and itself sends nothing
RoutedToTask ==
    (LineStep /\ Routable(bar, ipc'.input.message)) =>
        /\ ipc'.tasks =
              Append(ipc.tasks,
                     ActionTask(EndpointOf(bar,
                                    split_once(ipc'.input.message, ".").val[1]),
                                split_once(ipc'.input.message, ".").val[2]))
        /\ ipc'.caller = ipc.caller
        /\ ipc'.endpoints = ipc.endpoints
        /\ bar'.result = "Ok(false)"

\* what the k-th task has recorded is what happened on its endpoint
Outcome(k) ==
    LET t  == ipc.tasks[k]
        t1 == ipc'.tasks[k]
        ep == ipc.endpoints[t.endpoint]
        e1 == ipc'.endpoints[t.endpoint]
    IN  /\ (~t.sent /\ t1.sent) =>
              /\ ep.open
              /\ e1.events = Append(ep.events, Action(t.message))
        /\ (t.got = "nothing" /\ t1.got = "response") =>
              /\ t.sent
              /\ ep.replies # <<>>
              /\ t1.response = Head(ep.replies)
              /\ e1.replies = Tail(ep.replies)
        /\ (t.got = "nothing" /\ t1.got = "closed") =>
              /\ t.sent
              /\ ep.replies = <<>> /\ ~ep.open
              /\ t1.response = Ok
        /\ (t.got = "nothing" /\ t1.got = "send failed") =>
              /\ ~t.sent /\ ~ep.open
              /\ e1.events = ep.events
              /\ t1.response.tag = "Err"
        /\ t.got # "nothing" => (t1.got = t.got /\ t1.response = t.response)
        /\ t.sent => t1.sent

\* the k-th task has forwarded exactly its response, once, and only when
\* it was at its last statement
ForwardedOnce(k) ==
    /\ Forwarded(ipc, k) =
          IF ipc.tasks[k].pc = "done"
          THEN <<[of |-> k, response |-> ipc.tasks[k].response]>>
          ELSE <<>>
    /\ ipc.tasks[k].pc = "done" => ipc.tasks[k].got # "nothing"

\* C17 (as the code has it): for a routed action the task forwards exactly
\* one response, and only after either Action(suffix) was sent on the
\* panel's endpoint and then the panel's response was received (forwarded as
\* it is) or the reply channel was found closed (forwarded as Ok), or the
\* send itself failed because the panel had dropped its receiver (forwarded
\* as Err, nothing sent, nothing awaited).
C17_ForwardAfterOutcome ==
    [][/\ RoutedToTask
       /\ \A k \in 1..Len(ipc.tasks) :
             ipc.tasks[k].kind = "action" =>
                 /\ Outcome(k)
                 /\ ForwardedOnce(k)]_vars

\* C17: a forwarded response of a routed action was preceded by
\* Action(suffix) being sent on the endpoint and by the receipt of the
\* panel's response or the closing of the reply channel, and is Ok when the
\* reply channel is closed.
C17_ForwardAfterReply ==
    \A k \in 1..Len(ipc.tasks) :
        (ipc.tasks[k].kind = "action" /\ ipc.tasks[k].pc = "done") =>
            /\ ipc.tasks[k].sent
            /\ ipc.tasks[k].got \in {"response", "closed"}
            /\ ipc.tasks[k].got = "closed" => ipc.tasks[k].response = Ok

\* the panel answered `b.quit` with an error, and the caller has been
\* forwarded exactly that
C17_Witness ==
    /\ Len(ipc.tasks) > 0
    /\ ipc.tasks[1].kind = "action"
    /\ ipc.tasks[1].pc = "done"
    /\ ipc.tasks[1].sent
    /\ ipc.tasks[1].got = "response"
    /\ ipc.caller = <<[of |-> 1, response |-> Err(<<"failed">>)]>>

---------------------------------------------------------------------------
(* Mouse dispatch                                                          *)

\* `as i16` on an f64 coordinate: the fraction is dropped
AsI16(h) == IF h >= 0 THEN h \div 2 ELSE -((-h) \div 2)

\* MouseButton::try_parse
try_parse(value, reverse) ==
    CASE value = 1 -> [ok |-> TRUE, val |-> "Left"]
      [] value = 2 -> [ok |-> TRUE, val |-> "Middle"]
      [] value = 3 -> [ok |-> TRUE, val |-> "Right"]
      [] value = 4 -> IF reverse THEN [ok |-> TRUE, val |-> "ScrollUp"]
                      ELSE [ok |-> TRUE, val |-> "ScrollDown"]
      [] value = 5 -> IF reverse THEN [ok |-> TRUE, val |-> "ScrollDown"]
                      ELSE [ok |-> TRUE, val |-> "ScrollUp"]
      [] OTHER -> [ok |-> FALSE, val |-> "X server provided invalid button"]

\* Event::Mouse(MouseEvent { button, x, y })
MouseEvent(button, x, y) ==
    [tag |-> "Mouse", button |-> button, x |-> x, y |-> y]

\* a search that passes over the panels without endpoint
HitMutant(b, x) ==
    SelectSeq(AllPanels(b),
              LAMBDA p : /\ p.draw_info.some
                         /\ p.endpoint.some
                         /\ p.x <= F(x)
                         /\ p.x + F(p.draw_info.width) >= F(x))

\* the panels with a draw_info whose range holds x, in left-center-right
\* order; `find` takes the first
Hit(b, x) ==
    SelectSeq(AllPanels(b),
              LAMBDA p : /\ p.draw_info.some
                         /\ p.x <= F(x)
                         /\ p.x + F(p.draw_info.width) >= F(x))

\* `e.send.send(..)?`
Delivered(b, sent) ==
    IF sent.ok THEN [bar |-> b, ipc |-> sent.ipc]
    ELSE [bar |-> [b EXCEPT !.result = "Err"], ipc |-> sent.ipc]

\* the rest of the ButtonPress arm once the panel is looked for
Dispatch(b, i, hit, button, x, y) ==
    IF Len(hit) = 0 \/ ~hit[1].endpoint.some
    THEN [bar |-> b, ipc |-> i]
    ELSE Delivered(b, Send(i, hit[1].endpoint.val,
                           MouseEvent(try_parse(button, b.reverse_scroll).val,
                                      x - AsI16(hit[1].x), y)))

\* Bar::process_event on a ButtonPress event with that detail at (x, y)
process_button(b, i, detail, x, y) ==
    IF detail \in 1..5
    THEN Dispatch([b EXCEPT !.log = <<Call("process_event", "ButtonPress",
                                           detail)>>,
                            !.result = "Ok"],
                  i, Hit(b, x), detail, x, y)
    ELSE [bar |-> [b EXCEPT !.log = <<Call("process_event", "ButtonPress",
                                           detail)>>,
                            !.result = "Ok"],
          ipc |-> i]

\* the event loop would wait for the Mutex of the panel's endpoint
Blocked(i, detail, hit) ==
    /\ detail \in 1..5
    /\ Len(hit) > 0
    /\ hit[1].endpoint.some
    /\ i.endpoints[hit[1].endpoint.val].lock # 0

---------------------------------------------------------------------------
(* A bar 1000 wide with margins 10, 5, 10 under button presses: left A     *)
(* (100 wide, no endpoint) and B (50 wide, endpoint 1), center C (200      *)
(* wide, endpoint 2), right D (80 wide, endpoint 3).                       *)

\* most events waiting in the panels' channels
MaxQueue == 1

MousePanels(b) ==
    [b EXCEPT
        !.left_panels =
            <<Panel(PanelDrawInfo(100, "None", TRUE, TRUE), <<"A">>,
                    None, TRUE),
              Panel(PanelDrawInfo(50, "None", TRUE, TRUE), <<"B">>,
                    Some(1), TRUE)>>,
        !.center_panels =
            <<Panel(PanelDrawInfo(200, "None", TRUE, TRUE), <<"C">>,
                    Some(2), TRUE)>>,
        !.right_panels =
            <<Panel(PanelDrawInfo(80, "None", TRUE, TRUE), <<"D">>,
                    Some(3), TRUE)>>]

MouseInit ==
    /\ \E reverse_scroll \in BOOLEAN :
          bar = MousePanels(NewBar(1000, Margins(10, 5, 10), reverse_scroll,
                                   FALSE))
    /\ slice = <<>>
    /\ statuses = None
    /\ pc = "run"
    /\ hook_calls = <<>>
    /\ passes = 0
    /\ ipc = [NoIpc EXCEPT !.endpoints = <<Endpoint, Endpoint, Endpoint>>]

\* the details, x and y of the presses the X server reports
MouseDetails == 0..6

MouseXs == {110, 125, 600, 950}

MouseYs == {10}

\* the events waiting in all channels together
Waiting(i) ==
    LET RECURSIVE sum(_)
        sum(e) == IF e = 0 THEN 0 ELSE Len(i.endpoints[e].events) + sum(e - 1)
    IN  sum(Len(i.endpoints))

\* the X server reports a button press
ButtonPress ==
    /\ Running
    /\ \E detail \in MouseDetails :
       \E x \in MouseXs :
       \E y \in MouseYs :
          /\ ~Blocked(ipc, detail, Hit(bar, x))
          /\ \E out \in {process_button(bar,
                             [ipc EXCEPT !.input = [kind |-> "button",
                                                    detail |-> detail,
                                                    x |-> x, y |-> y,
                                                    parity |-> ~@.parity]],
                             detail, x, y)} :
                /\ Waiting(out.ipc) <= MaxQueue
                /\ bar' = out.bar
                /\ ipc' = out.ipc
    /\ UNCHANGED <<slice, statuses, pc, hook_calls, passes>>

MouseNext ==
    \/ ButtonPress
    \/ Expose(TRUE)
    \/ PanelHandles

MouseSpec == MouseInit /\ [][MouseNext]_vars

\* the step is the handling of one button press by the event loop
ButtonStep ==
    /\ ipc'.input.kind = "button"
    /\ ipc'.input.parity # ipc.input.parity

\* the endpoint has been sent a Mouse event in the step
Received(e) ==
    /\ Len(ipc'.endpoints[e].events) = Len(ipc.endpoints[e].events) + 1
    /\ ipc'.endpoints[e].events[Len(ipc'.endpoints[e].events)].tag = "Mouse"

\* the Mouse event the endpoint has been sent in the step
ReceivedEvent(e) == ipc'.endpoints[e].events[Len(ipc'.endpoints[e].events)]

\* the panel that holds the endpoint
Holder(b, e) ==
    AllPanels(b)[CHOOSE k \in 1..Len(AllPanels(b)) :
                     AllPanels(b)[k].endpoint = Some(e)]

\* C18: for any button press at most one panel receives a Mouse event, and
\* the x delivered to it is inside the panel: 0 <= x' < panel.width.
C18_DispatchLocality ==
    [][ButtonStep =>
          /\ Cardinality({e \in 1..Len(ipc.endpoints) : Received(e)}) <= 1
          /\ \A e \in 1..Len(ipc.endpoints) :
                Received(e) =>
                    /\ 0 <= ReceivedEvent(e).x
                    /\ ReceivedEvent(e).x < Holder(bar, e).draw_info.width]_vars

\* the positions, in left-center-right order, of the panels with a
\* draw_info whose range [x, x + width] holds the event x
Containing(b, x) ==
    {k \in 1..Len(AllPanels(b)) :
        /\ AllPanels(b)[k].draw_info.some
        /\ AllPanels(b)[k].x <= F(x)
        /\ F(x) <= AllPanels(b)[k].x + F(AllPanels(b)[k].draw_info.width)}

\* what the panels' channels hold after a press for which `selected` are
\* the positions of the panels that contain it
Routing(b, i, selected, input) ==
    IF selected = {} \/ ~AllPanels(b)[Min(selected)].endpoint.some
    THEN i.endpoints
    ELSE [i.endpoints EXCEPT
             ![AllPanels(b)[Min(selected)].endpoint.val].events =
                 Append(@, MouseEvent(
                               try_parse(input.detail, b.reverse_scroll).val,
                               input.x - AsI16(AllPanels(b)[Min(selected)].x),
                               input.y))]

\* C19: a button press with detail 1..5 is routed to the first panel, in
\* left-center-right and index order, whose x-range contains the event x;
\* that panel is sent Mouse{button, x - panel.x, y}; when that panel has no
\* endpoint nothing is sent to anyone and no error is returned; the panels
\* and the layout do not change.
C19_Routing ==
    [][(ButtonStep /\ ipc'.input.detail \in 1..5) =>
          /\ ipc'.endpoints =
                Routing(bar, ipc, Containing(bar, ipc'.input.x), ipc'.input)
          /\ bar'.result = "Ok"
          /\ Forget(bar') = Forget(bar)
          /\ ipc'.tasks = ipc.tasks /\ ipc'.caller = ipc.caller]_vars

\* a left click at x = 125, y = 10 with B placed at 110 has been delivered
\* to B as Mouse{Left, 15, 10}
C19_Witness ==
    /\ ipc.input.kind = "button"
    /\ ipc.input.detail = 1 /\ ipc.input.x = 125 /\ ipc.input.y = 10
    /\ bar.left_panels[2].x = Px(110)
    /\ ipc.endpoints[1].events = <<MouseEvent("Left", 15, 10)>>
    /\ ipc.endpoints[2].events = <<>>
    /\ ipc.endpoints[3].events = <<>>

---------------------------------------------------------------------------
(* Button decoding on its own                                              *)

\* the largest u8
U8Max == 255

DecodeInit ==
    /\ bar = NewBar(BarWidth, Margins(MarginLeft, MarginInternal, MarginRight),
                    FALSE, FALSE)
    /\ slice = <<>>
    /\ statuses = None
    /\ pc = "run"
    /\ hook_calls = <<>>
    /\ passes = 0
    /\ ipc = NoIpc

\* MouseButton::try_parse is applied to a detail and a reverse flag
Decode ==
    /\ \E value \in 0..U8Max :
       \E reverse \in BOOLEAN :
          ipc' = [ipc EXCEPT !.input = [kind |-> "decode", value |-> value,
                                        reverse |-> reverse,
                                        parity |-> FALSE,
                                        result |-> try_parse(value, reverse)]]
    /\ UNCHANGED <<bar, slice, statuses, pc, hook_calls, passes>>

DecodeNext == Decode

DecodeSpec == DecodeInit /\ [][DecodeNext]_vars

\* the decoding the specification gives
Decoded(value, reverse) ==
    CASE value = 1 -> [ok |-> TRUE, val |-> "Left"]
      [] value = 2 -> [ok |-> TRUE, val |-> "Middle"]
      [] value = 3 -> [ok |-> TRUE, val |-> "Right"]
      [] value = 4 /\ ~reverse -> [ok |-> TRUE, val |-> "ScrollUp"]
      [] value = 5 /\ ~reverse -> [ok |-> TRUE, val |-> "ScrollDown"]
      [] value = 4 /\ reverse  -> [ok |-> TRUE, val |-> "ScrollDown"]
      [] value = 5 /\ reverse  -> [ok |-> TRUE, val |-> "ScrollUp"]
      [] OTHER -> [ok |-> FALSE, val |-> "X server provided invalid button"]

\* C20: details 1, 2, 3 decode to Left, Middle, Right whatever
\* reverse_scroll is; with reverse_scroll unset 4 decodes to ScrollUp and 5
\* to ScrollDown, with it set 4 to ScrollDown and 5 to ScrollUp; any other
\* detail is an error.
C20_ButtonDecoding ==
    ipc.input.kind = "decode" =>
        /\ ipc.input.result.ok = Decoded(ipc.input.value, ipc.input.reverse).ok
        /\ ipc.input.result.ok =>
              ipc.input.result.val =
                  Decoded(ipc.input.value, ipc.input.reverse).val

---------------------------------------------------------------------------
(* The bar of IpcSpec with button presses as well: the event loop and the  *)
(* blocking tasks contend for the Mutex of a panel's endpoint.             *)

\* the x of the presses: inside panel b once the bar is laid out
LockXs == {6}

\* the X server reports a left button press; the event loop delivers it, or
\* waits at `e.lock()` when a task holds the Mutex of the panel's endpoint
Press ==
    /\ Running
    /\ \E x \in LockXs :
       \E input \in {[kind |-> "button", detail |-> 1, x |-> x, y |-> 10,
                      parity |-> ~ipc.input.parity]} :
          IF Blocked(ipc, 1, Hit(bar, x))
          THEN /\ pc' = "e.lock()"
               /\ ipc' = [ipc EXCEPT !.input = input]
               /\ bar' = bar
          ELSE \E out \in {process_button(bar, [ipc EXCEPT !.input = input],
                                          1, x, 10)} :
                  /\ Waiting(out.ipc) <= MaxQueue
                  /\ bar' = out.bar
                  /\ ipc' = out.ipc
                  /\ pc' = pc
    /\ UNCHANGED <<slice, statuses, hook_calls, passes>>

\* the Mutex has been released: the event loop gets it and goes on
Locked ==
    /\ pc = "e.lock()"
    /\ ~Blocked(ipc, ipc.input.detail, Hit(bar, ipc.input.x))
    /\ \E out \in {process_button(bar, ipc, ipc.input.detail, ipc.input.x,
                                  ipc.input.y)} :
          /\ bar' = out.bar
          /\ ipc' = out.ipc
    /\ pc' = "run"
    /\ UNCHANGED <<slice, statuses, hook_calls, passes>>

LockNext ==
    \/ SendMessage
    \/ Clone
    \/ SendAction
    \/ Lock
    \/ Recv
    \/ Forward
    \/ PanelHandles
    \/ PanelDrops
    \/ Expose(TRUE)
    \/ Press
    \/ Locked

LockSpec == IpcInit /\ [][LockNext]_vars

\* the k-th task holds the Mutex of its endpoint and blocking_recv cannot
\* return: no response is queued and the panel still holds its sender
WaitsWithLock(k) ==
    /\ ipc.tasks[k].pc = "recv"
    /\ ipc.endpoints[ipc.tasks[k].endpoint].lock = k
    /\ ~CanRecv(ipc, k)

\* C21: the Mutex of an endpoint is never held by a task that blocks for
\* the panel's response, so the event loop never waits for that Mutex when
\* it delivers a mouse event.
C21_EventLoopNeverWaits == pc # "e.lock()"

---------------------------------------------------------------------------
(* Ramp::choose.  An f64 is a fraction num/den with den > 0, an infinity   *)
(* or NaN; the icons of a ramp are named by their indices.                 *)

Fraction(num, den) == [kind |-> "finite", num |-> num, den |-> den]

\* f64::from of an integer
FromInt(n) == Fraction(n, 1)

\* a / b on f64, for whole a and b
Quotient(a, b) ==
    IF b > 0 THEN Fraction(a, b)
    ELSE IF b < 0 THEN Fraction(-a, -b)
    ELSE IF a > 0 THEN [kind |-> "+inf"]
    ELSE IF a < 0 THEN [kind |-> "-inf"]
    ELSE [kind |-> "NaN"]

\* p < q on f64, q finite
Less(p, q) ==
    CASE p.kind = "finite" -> p.num * q.den < q.num * p.den
      [] p.kind = "-inf"   -> TRUE
      [] OTHER             -> FALSE

\* p > q on f64, q finite
Greater(p, q) ==
    CASE p.kind = "finite" -> p.num * q.den > q.num * p.den
      [] p.kind = "+inf"   -> TRUE
      [] OTHER             -> FALSE

\* p * n on f64, for a whole n > 0
Times(p, n) ==
    IF p.kind = "finite" THEN Fraction(p.num * n, p.den) ELSE p

\* `if prop < min { prop = min }`
AtLeast(prop, min) == IF Less(prop, min) THEN min ELSE prop

\* `if prop > max { prop = max }`
AtMost(prop, max) == IF Greater(prop, max) THEN max ELSE prop

\* `self.icons.get((idx.trunc() as usize).min(self.icons.len() - 1))
\*  .unwrap().clone()` for n > 0: the cast goes toward zero, takes NaN and
\* negatives to 0 and +inf to usize::MAX
Icon(n, idx) ==
    [tag |-> "icon",
     idx |-> CASE idx.kind = "finite" ->
                     IF idx.num <= 0 THEN 0
                     ELSE Min({idx.num \div idx.den, n - 1})
               [] idx.kind = "+inf" -> n - 1
               [] OTHER -> 0]

\* Ramp::choose of lazybar-core on a ramp of n icons
choose(n, value, min, max) ==
    IF n = 0 THEN [tag |-> "empty"]
    ELSE Icon(n, Times(AtMost(AtLeast(Quotient(value - min, max - min),
                                      FromInt(min)),
                              FromInt(max)),
                       n))

\* Ramp::choose of src/utils.rs on a ramp of n icons: with no icon,
\* `self.icons.len() - 1` overflows (a panic with overflow checks) or wraps,
\* and then `get` finds nothing and `unwrap` panics
utils_choose(n, value, min, max) ==
    IF n = 0 THEN [tag |-> "panic"]
    ELSE Icon(n, Times(Quotient(value - min, max - min), n))

\* most icons of a ramp
MaxIcons == 3

\* largest value, min and max handed to choose
MaxValue == 4

RampInit ==
    /\ bar = NewBar(BarWidth, Margins(MarginLeft, MarginInternal, MarginRight),
                    FALSE, FALSE)
    /\ slice = <<>>
    /\ statuses = None
    /\ pc = "run"
    /\ hook_calls = <<>>
    /\ passes = 0
    /\ ipc = NoIpc

\* what a call of choose was given and what it returned
Chosen(of, n, value, min, max, result) ==
    [kind |-> "choose", of |-> of, n |-> n, value |-> value, min |-> min,
     max |-> max, result |-> result, parity |-> FALSE]

\* a panel calls Ramp::choose of lazybar-core
Choose ==
    /\ \E n \in 0..MaxIcons :
       \E value \in 0..MaxValue :
       \E min \in 0..MaxValue :
       \E max \in 0..MaxValue :
          ipc' = [ipc EXCEPT !.input = Chosen("ramp.rs", n, value, min, max,
                                              choose(n, value, min, max))]
    /\ UNCHANGED <<bar, slice, statuses, pc, hook_calls, passes>>

\* a panel calls Ramp::choose of src/utils.rs
UtilsChoose ==
    /\ \E n \in 0..MaxIcons :
       \E value \in 0..MaxValue :
       \E min \in 0..MaxValue :
       \E max \in 0..MaxValue :
          ipc' = [ipc EXCEPT !.input = Chosen("utils.rs", n, value, min, max,
                                              utils_choose(n, value, min, max))]
    /\ UNCHANGED <<bar, slice, statuses, pc, hook_calls, passes>>

RampNext ==
    \/ Choose
    \/ UtilsChoose

RampSpec == RampInit /\ [][RampNext]_vars

\* C22: for every number of icons n and every value, min and max, choose
\* returns icons[i] with 0 <= i < n when n > 0 and the empty string when
\* n = 0; it never fails.
C22_RampClamping ==
    ipc.input.kind = "choose" =>
        IF ipc.input.n = 0
        THEN ipc.input.result.tag = "empty"
        ELSE /\ ipc.input.result.tag = "icon"
             /\ ipc.input.result.idx \in 0..(ipc.input.n - 1)

\* value bounded by min and max
Clamped(value, min, max) ==
    IF value < min THEN min ELSE IF value > max THEN max ELSE value

\* C23: with n > 0 icons and min < max, Ramp::choose of lazybar-core returns
\* icons[min(n - 1, floor((v' - min) / (max - min) * n))], v' being the
\* value bounded by min and max.
C23_RampIndex ==
    (/\ ipc.input.kind = "choose"
     /\ ipc.input.of = "ramp.rs"
     /\ ipc.input.n > 0
     /\ ipc.input.min < ipc.input.max) =>
        /\ ipc.input.result.tag = "icon"
        /\ ipc.input.result.idx =
              Min({ipc.input.n - 1,
                   ((Clamped(ipc.input.value, ipc.input.min, ipc.input.max)
                        - ipc.input.min) * ipc.input.n)
                       \div (ipc.input.max - ipc.input.min)})

---------------------------------------------------------------------------
(* Bar::shutdown, one panel of the chained iterator at a time.  `slice`    *)
(* holds the panels the iterator has not yet yielded, `hook_calls` the     *)
(* names of the panels whose shutdown hook has been called.                *)

\* PanelDrawInfo::new with the presence of its shutdown hook
PanelDrawInfoWith(w, d, show, hide, shutdown) ==
    [some |-> TRUE, width |-> w, dependence |-> d,
     show_fn |-> show, hide_fn |-> hide, shutdown |-> shutdown]

\* what a panel may hold at shutdown: no draw_info, or a draw_info with or
\* without a shutdown hook
ShutdownInfos ==
    {None,
     PanelDrawInfoWith(Narrow, "None", TRUE, TRUE, TRUE),
     PanelDrawInfoWith(Narrow, "None", TRUE, TRUE, FALSE)}

ShutdownInit ==
    /\ \E l0 \in ShutdownInfos :
       \E l1 \in ShutdownInfos :
       \E c0 \in ShutdownInfos :
       \E r0 \in ShutdownInfos :
          bar = [NewBar(BarWidth,
                        Margins(MarginLeft, MarginInternal, MarginRight),
                        FALSE, FALSE)
                    EXCEPT !.left_panels   = <<Panel(l0, <<"l0">>, None, TRUE),
                                               Panel(l1, <<"l1">>, None, TRUE)>>,
                           !.center_panels = <<Panel(c0, <<"c0">>, None, TRUE)>>,
                           !.right_panels  = <<Panel(r0, <<"r0">>, None, TRUE)>>]
    /\ slice = <<>>
    /\ statuses = None
    /\ pc = "run"
    /\ hook_calls = <<>>
    /\ passes = 0
    /\ ipc = NoIpc

\* `.filter_map(|panel| panel.draw_info).filter_map(|draw_info|
\* draw_info.shutdown)` on one panel: its hook, if it has one
ShutdownHook(panel) ==
    IF panel.draw_info.some /\ panel.draw_info.shutdown
    THEN <<panel.name>> ELSE <<>>

\* an iterator that ends at the first panel without draw_info
RemainingMutant(panels) ==
    IF Head(panels).draw_info.some THEN Tail(panels) ELSE <<>>

\* the chained iterator after it has yielded its next panel
Remaining(panels) == Tail(panels)

\* Bar::shutdown is called: the three vectors are chained
BeginShutdown ==
    /\ pc = "run"
    /\ pc' = "shutdown"
    /\ slice' = AllPanels(bar)
    /\ UNCHANGED <<bar, statuses, hook_calls, passes, ipc>>

\* for_each takes the next panel and calls its hook, if any
ShutdownPanel ==
    /\ pc = "shutdown"
    /\ slice # <<>>
    /\ hook_calls' = hook_calls \o ShutdownHook(Head(slice))
    /\ slice' = Remaining(slice)
    /\ UNCHANGED <<bar, statuses, pc, passes, ipc>>

\* the iterator is exhausted: Bar::shutdown returns
EndShutdown ==
    /\ pc = "shutdown"
    /\ slice = <<>>
    /\ pc' = "returned"
    /\ UNCHANGED <<bar, slice, statuses, hook_calls, passes, ipc>>

ShutdownNext ==
    \/ BeginShutdown
    \/ ShutdownPanel
    \/ EndShutdown

\* Bar::shutdown is a loop on the calling thread: it goes on as long as it
\* has a step to take
ShutdownSpec ==
    ShutdownInit /\ [][ShutdownNext]_vars /\ WF_vars(ShutdownNext)

\* the names of the panels whose draw_info carries a shutdown hook, in
\* left-center-right and index order
WithHook(b) ==
    LET ps == SelectSeq(AllPanels(b),
                        LAMBDA p : p.draw_info.some /\ p.draw_info.shutdown)
    IN  [k \in 1..Len(ps) |-> ps[k].name]

---------------------------------------------------------------------------
(* The update stream of a Custom panel.  `statuses` holds the CustomStream *)
(* with the shared paused flag, `slice` the polls made so far, each with   *)
(* the paused flag it found and what it returned.                          *)

\* CustomStream::new, with the `paused` the panel shares with its hooks
CustomStream(interval) ==
    [interval |-> interval, paused |-> FALSE, fired |-> FALSE]

\* a poll_next that forgets that it has fired
poll_nextMutant(stream, tick) ==
    IF stream.paused THEN [stream |-> stream, poll |-> "Pending"]
    ELSE IF stream.interval
    THEN [stream |-> stream, poll |-> IF tick THEN "Ready" ELSE "Pending"]
    ELSE [stream |-> stream, poll |-> "Ready"]

\* CustomStream::poll_next; `tick` tells whether interval.poll_tick is ready
poll_next(stream, tick) ==
    IF stream.paused THEN [stream |-> stream, poll |-> "Pending"]
    ELSE IF stream.interval
    THEN [stream |-> stream, poll |-> IF tick THEN "Ready" ELSE "Pending"]
    ELSE IF stream.fired
    THEN [stream |-> stream, poll |-> "Pending"]
    ELSE [stream |-> [stream EXCEPT !.fired = TRUE], poll |-> "Ready"]

\* most polls of one stream
MaxPolls == 4

CustomInit ==
    /\ bar = NewBar(BarWidth, Margins(MarginLeft, MarginInternal, MarginRight),
                    FALSE, FALSE)
    /\ slice = <<>>
    /\ \E interval \in BOOLEAN : statuses = CustomStream(interval)
    /\ pc = "run"
    /\ hook_calls = <<>>
    /\ passes = 0
    /\ ipc = NoIpc

\* the executor polls the stream
PollNext ==
    /\ Len(slice) < MaxPolls
    /\ \E tick \in BOOLEAN :
       \E out \in {poll_next(statuses, tick)} :
          /\ statuses' = out.stream
          /\ slice' = Append(slice, [paused |-> statuses.paused,
                                     poll |-> out.poll])
    /\ UNCHANGED <<bar, pc, hook_calls, passes, ipc>>

\* the panel's hide hook pauses the stream, its show hook resumes it
SetPaused ==
    /\ statuses' = [statuses EXCEPT !.paused = ~@]
    /\ UNCHANGED <<bar, slice, pc, hook_calls, passes, ipc>>

CustomNext ==
    \/ PollNext
    \/ SetPaused

CustomSpec == CustomInit /\ [][CustomNext]_vars

\* the polls that found the stream not paused, in order
Unpaused == {k \in 1..Len(slice) : ~slice[k].paused}

---------------------------------------------------------------------------
(* The center block after a center+right pass                              *)

\* the statuses a region's latches record
Latched(panels) ==
    [i \in 1..Len(panels) |->
        IF panels[i].last_status THEN Shown ELSE ZeroWidth]

\* summed width (f64) of the panels of a region whose latch says Shown
LatchedWidth(panels) == F(ShownWidth(panels, Latched(panels), Len(panels)))

\* the four-way rule as stated, from C, L, R, mid and m
FourWay(C, L, R, mid, m) ==
    IF C > R - L - 2 * m
    THEN [start |-> L + m, state |-> "Unknown"]
    ELSE IF C > 2 * (R - mid - m)
    THEN [start |-> R - C - m, state |-> "Left"]
    ELSE IF C > 2 * (mid - L - m)
    THEN [start |-> L + m, state |-> "Right"]
    ELSE [start |-> mid - C \div 2, state |-> "Center"]

\* C26: after a repaint of the whole bar, which ends with a center+right
\* pass, extents.center.start and the center state are those of the
\* four-way rule with C the summed width of the Shown center panels,
\* L = extents.left, R = width - (summed width of the Shown right panels)
\* - margins.right - margins.internal, mid = width / 2 and
\* m = margins.internal.
C26_FourWayRule ==
    (LastOp(bar, "process_event") /\ ~bar.panicked) =>
        [start |-> bar.extents.center[1], state |-> bar.center_state]
            = FourWay(LatchedWidth(bar.center_panels),
                      bar.extents.left,
                      F(bar.width) - LatchedWidth(bar.right_panels)
                          - bar.margins.right - bar.margins.internal,
                      F(bar.width) \div 2,
                      bar.margins.internal)


---------------------------------------------------------------------------
(* The right region after a repaint of the whole bar                       *)

\* the Shown panels of a region lie side by side from `start`, in index
\* order
Contiguous(panels, start) ==
    \A i \in 1..Len(panels) :
        (panels[i].last_status /\ panels[i].draw_info.some) =>
            panels[i].x
                = start + F(ShownWidth(panels, Latched(panels), i - 1))

\* C27: after a repaint of the whole bar, which ends with the placement of
\* the right region, extents.right is width - (summed width of the Shown
\* right panels) - margins.right, or extents.center.cursor
\* + margins.internal where that is larger, and the Shown right panels lie
\* side by side from extents.right in index order.
C27_RightPlacement ==
    (LastOp(bar, "process_event") /\ ~bar.panicked) =>
        /\ bar.extents.right
               = Max({F(bar.width) - LatchedWidth(bar.right_panels)
                          - bar.margins.right,
                      bar.extents.center[2] + bar.margins.internal})
        /\ Contiguous(bar.right_panels, bar.extents.right)


---------------------------------------------------------------------------
(* The choice of repaint in update_panel: the bar of Spec driven by        *)
(* updates and Expose events, where an update leaves in bar.log the call   *)
(* and the repaint it went on to.                                          *)

\* what remains of an update_panel call: the call and the repaint it chose
ScopeKept(b) ==
    [b EXCEPT !.log = SubSeq(@, 1, Min({2, Len(@)})), !.result = "none"]

\* a panel's stream yields one of its draw_infos
ScopeUpdate ==
    /\ Running
    /\ \E alignment \in Alignment :
       \E idx \in 0..(Len(PanelsOf(bar, alignment)) - 1) :
       \E draw_info \in DrawInfos(alignment, idx) :
          bar' = ScopeKept(update_panel(bar, alignment, idx, draw_info))
    /\ UNCHANGED <<slice, statuses, pc, hook_calls, passes, ipc>>

ScopeNext ==
    \/ ScopeUpdate
    \/ Expose(FALSE)

ScopeSpec == Init /\ [][ScopeNext]_vars

\* the step is an update_panel call for a panel of `region`
Updates(b, region) ==
    /\ LastOp(b, "update_panel")
    /\ b.log[1].region = region

\* new.width - old.width (f64) of the slot the step from `b` to `c` updated
WidthChange(b, c) ==
    F(CurWidth(PanelAt(c, UpdatedId(c)))) - F(CurWidth(PanelAt(b, UpdatedId(c))))

\* the repaint an update_panel call went on to
ScopeOf(b) == b.log[2].fn

\* the free slack on both sides of the center block
Slack(b) ==
    (b.extents.right - b.extents.center[2] - b.margins.internal)
        + (b.extents.center[1] - b.extents.left - b.margins.internal)

\* the scope as stated for a right-region panel whose width changes by D
RightScope(b, D) ==
    IF b.extents.right - D - b.margins.internal > b.extents.center[2]
    THEN "redraw_right"
    ELSE IF Slack(b) > D
    THEN "redraw_center_right"
    ELSE "redraw_bar"

\* C28: an update of a right-region panel with width change D # 0 repaints
\* the right region alone when extents.right - D - margins.internal
\* > extents.center.cursor, otherwise the center and the right region when
\* the free slack on both sides of the center block exceeds D, otherwise
\* the whole bar.
C28_RightScope ==
    [][(Updates(bar', "Right") /\ WidthChange(bar, bar') # 0)
       => ScopeOf(bar') = RightScope(bar, WidthChange(bar, bar'))]_vars

\* the bar `b` with the draw_info that the step to `c` delivered stored in
\* the slot it addressed, as the repaint of that step finds it
Installed(b, c) ==
    [WithPanels(b, UpdatedId(c)[1],
                [PanelsOf(b, UpdatedId(c)[1])
                     EXCEPT ![UpdatedId(c)[2] + 1].draw_info =
                                PanelAt(c, UpdatedId(c)).draw_info])
        EXCEPT !.log = <<c.log[1]>>, !.result = "Ok"]

\* the scope as stated for a left-region panel whose width changes by D
LeftScope(b, D) ==
    IF /\ b.extents.left + D + b.margins.internal < b.extents.center[1]
       /\ b.center_state \in {"Center", "Left"}
    THEN "redraw_left"
    ELSE "redraw_bar"

\* the repaint of that scope
Repainted(b, scope) ==
    CASE scope = "redraw_left" -> redraw_left(b)
      [] scope = "redraw_bar"  -> redraw_bar(b)

\* C29: an update of a left-region panel with width change D # 0 repaints
\* the left region alone exactly when extents.left + D + margins.internal
\* < extents.center.start and the center state is Center or Left, and the
\* whole bar otherwise; an update of a center-region panel with D # 0
\* repaints the whole bar; in either case the repaint is that of the bar
\* with the new draw_info already in the slot.
C29_LeftCenterScope ==
    [][/\ (Updates(bar', "Left") /\ WidthChange(bar, bar') # 0)
          => /\ ScopeOf(bar') = LeftScope(bar, WidthChange(bar, bar'))
             /\ bar' = ScopeKept(Repainted(Installed(bar, bar'),
                                           ScopeOf(bar')))
       /\ (Updates(bar', "Center") /\ WidthChange(bar, bar') # 0)
          => /\ ScopeOf(bar') = "redraw_bar"
             /\ bar' = ScopeKept(redraw_bar(Installed(bar, bar')))]_vars

\* the second left panel has grown from nothing to Narrow and the left
\* region alone was repainted: it ends at extents.left, short of the center
\* block
C29_Witness ==
    /\ Updates(bar, "Left")
    /\ UpdatedId(bar) = <<"Left", 1>>
    /\ ScopeOf(bar) = "redraw_left"
    /\ CurWidth(bar.left_panels[2]) = Narrow
    /\ bar.extents.left + bar.margins.internal < bar.extents.center[1]


---------------------------------------------------------------------------
(* One latch pass statement by statement: the for_each over the panels,    *)
(* then the loop over `hidden`, then the loop over `shown`.  bar.log holds *)
(* the events of the present pass, hook_calls the position in the present  *)
(* loop and the two vectors.                                               *)

\* the body of the for_each without the assignment to last_status
ExaminedMutant(panel, status) == panel

\* the assignment that ends the body of the for_each
Examined(panel, status) ==
    [panel EXCEPT !.last_status = (status = Shown)]

\* the position of a pass that begins
PassBegins(again) ==
    [pos |-> 0, hidden |-> <<>>, shown |-> <<>>, again |-> again]

PassInit ==
    /\ \E n \in 1..(MaxLen - 1) :
          slice \in [1..n -> {Panel(di, <<>>, None, TRUE) : di \in LatchDrawInfos}]
    /\ bar = NewBar(0, Margins(0, 0, 0), FALSE, FALSE)
    /\ statuses = None
    /\ pc = "idle"
    /\ hook_calls = PassBegins(FALSE)
    /\ passes = 0
    /\ ipc = NoIpc

\* a repaint resolves the statuses of the region and begins a pass
BeginPass ==
    /\ pc = "idle"
    /\ passes < MaxPasses
    /\ \E vis \in [1..Len(slice) -> BOOLEAN] :
       \E panels \in {[i \in 1..Len(slice) |->
                          [slice[i] EXCEPT !.visible = vis[i]]]} :
          /\ slice' = panels
          /\ statuses' = Some(apply_dependence(panels, bar.overflow_checks))
    /\ bar' = [bar EXCEPT !.log = <<>>]
    /\ pc' = "for_each"
    /\ hook_calls' = PassBegins(FALSE)
    /\ passes' = passes + 1
    /\ UNCHANGED ipc

\* redraw_right begins a pass with the statuses its caller has just used
BeginAgain ==
    /\ pc = "idle"
    /\ statuses.some
    /\ ~hook_calls.again
    /\ bar' = [bar EXCEPT !.log = <<>>]
    /\ pc' = "for_each"
    /\ hook_calls' = PassBegins(TRUE)
    /\ UNCHANGED <<slice, statuses, passes, ipc>>

\* one panel of the for_each: it is collected in `hidden` or in `shown`
\* where its latch and its status differ, and its latch is set
Examine ==
    /\ pc = "for_each"
    /\ \E i \in {hook_calls.pos + 1} :
          /\ hook_calls' =
                [hook_calls EXCEPT
                    !.pos = IF i = Len(slice) THEN 0 ELSE i,
                    !.hidden = IF /\ slice[i].draw_info.some
                                  /\ slice[i].last_status
                                  /\ statuses.val[i] # Shown
                               THEN Append(@, i - 1) ELSE @,
                    !.shown = IF /\ slice[i].draw_info.some
                                 /\ ~slice[i].last_status
                                 /\ statuses.val[i] = Shown
                              THEN Append(@, i - 1) ELSE @]
          /\ slice' = [slice EXCEPT ![i] = Examined(@, statuses.val[i])]
          /\ bar' = Logged(bar, <<Call("examined", "Left", i - 1)>>)
          /\ pc' = IF i = Len(slice) THEN "hidden" ELSE pc
    /\ UNCHANGED <<statuses, passes, ipc>>

\* one draw_info of `for draw_info in hidden`, or the end of that loop
Hide ==
    /\ pc = "hidden"
    /\ IF hook_calls.pos < Len(hook_calls.hidden)
       THEN \E i \in {hook_calls.hidden[hook_calls.pos + 1]} :
               /\ bar' = IF slice[i + 1].draw_info.hide_fn
                         THEN Logged(bar, <<Call("hide_fn", "Left", i)>>)
                         ELSE bar
               /\ hook_calls' = [hook_calls EXCEPT !.pos = @ + 1]
               /\ pc' = pc
       ELSE /\ hook_calls' = [hook_calls EXCEPT !.pos = 0]
            /\ pc' = "shown"
            /\ bar' = bar
    /\ UNCHANGED <<slice, statuses, passes, ipc>>

\* one draw_info of `for draw_info in shown`, or the end of the pass
Show ==
    /\ pc = "shown"
    /\ IF hook_calls.pos < Len(hook_calls.shown)
       THEN \E i \in {hook_calls.shown[hook_calls.pos + 1]} :
               /\ bar' = IF slice[i + 1].draw_info.show_fn
                         THEN Logged(bar, <<Call("show_fn", "Left", i)>>)
                         ELSE bar
               /\ hook_calls' = [hook_calls EXCEPT !.pos = @ + 1]
               /\ pc' = pc
       ELSE /\ hook_calls' = [hook_calls EXCEPT !.pos = 0]
            /\ pc' = "idle"
            /\ bar' = bar
    /\ UNCHANGED <<slice, statuses, passes, ipc>>

PassNext ==
    \/ BeginPass
    \/ BeginAgain
    \/ Examine
    \/ Hide
    \/ Show

PassSpec == PassInit /\ [][PassNext]_vars

\* the positions of the calls of `fn` in the log of the present pass
CallsOf(fn) == {k \in 1..Len(bar.log) : bar.log[k].fn = fn}

\* the positions of the hook calls in the log of the present pass
Hooks == CallsOf("hide_fn") \cup CallsOf("show_fn")

\* C30: within one latch pass a hook is invoked only when every panel of
\* the region has been examined and its last_status set from its status,
\* and every hide_fn is invoked before any show_fn; a pass that follows
\* with the same statuses invokes no hook.
C30_HooksAfterLatch ==
    /\ Hooks # {} =>
          /\ Cardinality(CallsOf("examined")) = Len(slice)
          /\ \A j \in CallsOf("examined") : \A k \in Hooks : j < k
          /\ \A i \in 1..Len(slice) :
                slice[i].last_status = (statuses.val[i] = Shown)
    /\ \A j \in CallsOf("hide_fn") : \A k \in CallsOf("show_fn") : j < k
    /\ hook_calls.again => Hooks = {}

\* a pass that hid the first panel and showed the second has ended
C30_Witness ==
    /\ pc = "idle"
    /\ Len(slice) = 2
    /\ bar.log = <<Call("examined", "Left", 0), Call("examined", "Left", 1),
                   Call("hide_fn", "Left", 0), Call("show_fn", "Left", 1)>>


---------------------------------------------------------------------------
(* Hooks that fail: a repaint of the left region and the bar-level         *)
(* commands `show` and `hide`, hook by hook, where every hook invoked      *)
(* returns Ok or Err.  hook_calls holds the operation, the position in the *)
(* present loop, the two vectors and the hooks that have failed.           *)

\* a hook result propagated with `?`
SwallowedMutant(b, outcome) ==
    IF outcome = "Err" THEN [b EXCEPT !.result = "Err"] ELSE b

\* `let _ = hide();` and `if let Err(e) = f() { log::warn!(..) }`: the
\* result of a hook is dropped
Swallowed(b, outcome) == b

\* the position of an operation that begins
HookBegins(op, hidden, shown) ==
    [op |-> op, pos |-> 0, hidden |-> hidden, shown |-> shown, failed |-> {}]

HookInit ==
    /\ \E n \in 1..(MaxLen - 1) :
          slice \in [1..n -> {Panel(di, <<>>, None, TRUE) : di \in LatchDrawInfos}]
    /\ bar = NewBar(0, Margins(0, 0, 0), FALSE, FALSE)
    /\ statuses = None
    /\ pc = "idle"
    /\ hook_calls = HookBegins("none", <<>>, <<>>)
    /\ passes = 0
    /\ ipc = NoIpc

\* the operation has not returned an error
Proceeding == bar.result # "Err"

\* Bar::redraw_left up to the call of process_show_hide_events, after
\* visibility commands have set the panels' flags
HookRepaint ==
    /\ pc = "idle"
    /\ Proceeding
    /\ passes < MaxPasses
    /\ \E vis \in [1..Len(slice) -> BOOLEAN] :
       \E panels \in {[i \in 1..Len(slice) |->
                          [slice[i] EXCEPT !.visible = vis[i]]]} :
          /\ slice' = panels
          /\ statuses' = Some(apply_dependence(panels, bar.overflow_checks))
          /\ bar' = [bar EXCEPT !.log = <<Call("redraw_left", "Left", -1)>>,
                                !.extents.left = bar.margins.left,
                                !.left_panels = panels,
                                !.result = "none"]
    /\ pc' = "for_each"
    /\ hook_calls' = HookBegins("redraw_left", <<>>, <<>>)
    /\ passes' = passes + 1
    /\ UNCHANGED ipc

\* the for_each of the latch pass, one panel at a time
HookExamine ==
    /\ Proceeding
    /\ Examine

\* one draw_info of `for draw_info in hidden`, or of the for_each of
\* hide_panels; after the last, the loop over `shown` or the return of
\* handle_ipc_event
HookHide ==
    /\ pc = "hidden"
    /\ Proceeding
    /\ IF hook_calls.pos < Len(hook_calls.hidden)
       THEN \E i \in {hook_calls.hidden[hook_calls.pos + 1]} :
            \E outcome \in {"Ok", "Err"} :
               IF slice[i + 1].draw_info.hide_fn
               THEN /\ bar' = Swallowed(
                                 Logged(bar, <<Call("hide_fn", "Left", i)>>),
                                 outcome)
                    /\ hook_calls' =
                          [hook_calls EXCEPT
                              !.pos = @ + 1,
                              !.failed = IF outcome = "Err"
                                         THEN @ \cup {<<"hide_fn", i>>}
                                         ELSE @]
                    /\ pc' = pc
               ELSE /\ bar' = bar
                    /\ hook_calls' = [hook_calls EXCEPT !.pos = @ + 1]
                    /\ pc' = pc
       ELSE /\ hook_calls' = [hook_calls EXCEPT !.pos = 0]
            /\ pc' = IF hook_calls.op = "hide" THEN "idle" ELSE "shown"
            /\ bar' = IF hook_calls.op = "hide"
                      THEN [bar EXCEPT !.result = "Ok(false)"]
                      ELSE bar
    /\ UNCHANGED <<slice, statuses, passes, ipc>>

\* one draw_info of `for draw_info in shown`, or of the for_each of
\* show_panels; after the last, the placement loop of redraw_left or the
\* return of handle_ipc_event
HookShow ==
    /\ pc = "shown"
    /\ Proceeding
    /\ IF hook_calls.pos < Len(hook_calls.shown)
       THEN \E i \in {hook_calls.shown[hook_calls.pos + 1]} :
            \E outcome \in {"Ok", "Err"} :
               IF slice[i + 1].draw_info.show_fn
               THEN /\ bar' = Swallowed(
                                 Logged(bar, <<Call("show_fn", "Left", i)>>),
                                 outcome)
                    /\ hook_calls' =
                          [hook_calls EXCEPT
                              !.pos = @ + 1,
                              !.failed = IF outcome = "Err"
                                         THEN @ \cup {<<"show_fn", i>>}
                                         ELSE @]
                    /\ pc' = pc
               ELSE /\ bar' = bar
                    /\ hook_calls' = [hook_calls EXCEPT !.pos = @ + 1]
                    /\ pc' = pc
       ELSE /\ hook_calls' = [hook_calls EXCEPT !.pos = 0]
            /\ pc' = IF hook_calls.op = "show" THEN "idle" ELSE "place"
            /\ bar' = IF hook_calls.op = "show"
                      THEN [bar EXCEPT !.result = "Ok(false)"]
                      ELSE bar
    /\ UNCHANGED <<slice, statuses, passes, ipc>>

\* the placement loop of Bar::redraw_left and its Ok(())
HookPlace ==
    /\ pc = "place"
    /\ Proceeding
    /\ bar' = [LeftPlaced(bar, statuses.val,
                          [panels |-> slice, calls |-> <<>>])
                  EXCEPT !.result = "Ok"]
    /\ pc' = "idle"
    /\ UNCHANGED <<slice, statuses, hook_calls, passes, ipc>>

\* the panels with a draw_info, as indices
WithDrawInfo(panels) ==
    SelectSeq(Indices(Len(panels)), LAMBDA i : panels[i + 1].draw_info.some)

\* Bar::handle_ipc_event on `show` or `hide`, up to the for_each of
\* show_panels or hide_panels
HookCommand ==
    /\ pc = "idle"
    /\ Proceeding
    /\ passes < MaxPasses
    /\ \E message \in {"show", "hide"} :
          /\ bar' = [bar EXCEPT !.log = <<Call("handle_ipc_event", message, -1)>>,
                                !.mapped = TRUE,
                                !.window_mapped = (message = "show"),
                                !.result = "none"]
          /\ pc' = IF message = "show" THEN "shown" ELSE "hidden"
          /\ hook_calls' = HookBegins(message, WithDrawInfo(slice),
                                      WithDrawInfo(slice))
    /\ passes' = passes + 1
    /\ UNCHANGED <<slice, statuses, ipc>>

HookNext ==
    \/ HookRepaint
    \/ HookExamine
    \/ HookHide
    \/ HookShow
    \/ HookPlace
    \/ HookCommand

HookSpec == HookInit /\ [][HookNext]_vars

\* the operation has returned and one of its hooks had failed
ReturnedAfterFailure(ops) ==
    /\ pc = "idle"
    /\ hook_calls.op \in ops
    /\ hook_calls.failed # {}

\* the hook calls in the log of the present operation, in order
Invoked == SelectSeq(bar.log, LAMBDA c : c.fn \in {"hide_fn", "show_fn"})

\* the calls of the hook `fn` of the collected panels that have one
Collected(fn, idxs) ==
    LET with == SelectSeq(idxs, LAMBDA i : slice[i + 1].draw_info[fn])
    IN  [k \in 1..Len(with) |-> Call(fn, "Left", with[k])]

\* the draw_fn calls in the log of the present operation, in order
Drawn == SelectSeq(bar.log, LAMBDA c : c.fn = "draw_fn")

\* C31: no hook result makes an operation return an error; a repaint one
\* of whose hooks failed has invoked every hook its latch pass collected,
\* has set every last_status from the status, has placed and drawn the
\* Shown panels of the region and has returned Ok; a bar-level show or
\* hide one of whose hooks failed has invoked that hook of every panel
\* and has returned Ok(false).
C31_HooksNeverAbort ==
    /\ Proceeding
    /\ ReturnedAfterFailure({"redraw_left"}) =>
          /\ Invoked = Collected("hide_fn", hook_calls.hidden)
                          \o Collected("show_fn", hook_calls.shown)
          /\ \A i \in 1..Len(slice) :
                slice[i].last_status = (statuses.val[i] = Shown)
          /\ bar.left_panels = Place(slice, statuses.val, bar.margins.left)
          /\ Drawn = DrawCalls(slice, statuses.val, "Left")
          /\ bar.result = "Ok"
    /\ ReturnedAfterFailure({"show", "hide"}) =>
          /\ Invoked = AllHookCalls([bar EXCEPT !.left_panels = slice],
                                    hook_calls.op \o "_fn")
          /\ bar.result = "Ok(false)"

\* a repaint of two panels has returned: the hide_fn of the first failed,
\* the show_fn of the second was invoked after it and the second was drawn
C31_Witness ==
    /\ ReturnedAfterFailure({"redraw_left"})
    /\ hook_calls.failed = {<<"hide_fn", 0>>}
    /\ bar.log = <<Call("redraw_left", "Left", -1),
                   Call("examined", "Left", 0), Call("examined", "Left", 1),
                   Call("hide_fn", "Left", 0), Call("show_fn", "Left", 1),
                   Call("draw_fn", "Left", 1)>>


---------------------------------------------------------------------------
(* Drawing and the resolved status                                         *)

\* the resolved status of the panel (region, idx) of a bar
StatusOf(b, region, idx) ==
    Resolve(PanelsOf(b, region), idx, b.overflow_checks)

\* C32: every draw_fn an operation invokes is that of a panel whose
\* resolved status is Shown.
C32_DrawnOnlyWhileShown ==
    \A k \in 1..Len(bar.log) :
        bar.log[k].fn = "draw_fn" =>
            StatusOf(bar, bar.log[k].region, bar.log[k].idx) = Shown


---------------------------------------------------------------------------
(* Button presses on the bar of MouseSpec while visibility commands hide   *)
(* and show its panels                                                     *)

\* the X server reports a press of the left button at y = 10 and an x
\* inside A or inside C as an Expose places them
HiddenPress ==
    /\ Running
    /\ \E x \in {110, 600} :
          /\ ~Blocked(ipc, 1, Hit(bar, x))
          /\ \E out \in {process_button(bar,
                             [ipc EXCEPT !.input = [kind |-> "button",
                                                    detail |-> 1,
                                                    x |-> x, y |-> 10,
                                                    parity |-> ~@.parity]],
                             1, x, 10)} :
                /\ Waiting(out.ipc) <= MaxQueue
                /\ bar' = out.bar
                /\ ipc' = out.ipc
    /\ UNCHANGED <<slice, statuses, pc, hook_calls, passes>>

HiddenNext ==
    \/ HiddenPress
    \/ Expose(FALSE)
    \/ PanelHandles
    \/ PanelEvent({"toggle"}, FALSE)

HiddenSpec == MouseInit /\ [][HiddenNext]_vars

\* C33: a button press delivers a Mouse event only to a panel whose
\* resolved status is Shown.
C33_MouseOnlyWhileShown ==
    [][ButtonStep =>
          \A e \in 1..Len(ipc.endpoints) :
              Received(e) =>
                  \A id \in PanelIds(bar) :
                      PanelAt(bar, id).endpoint = Some(e)
                          => StatusOf(bar, id[1], id[2]) = Shown]_vars


---------------------------------------------------------------------------
(* Two actions for the same panel in flight: the bar of IpcSpec takes the  *)
(* lines `b.one` and `b.two`, and panel b answers each action with a       *)
(* response that names it.                                                 *)

\* the event loop takes a line addressed to panel b while fewer than two
\* tasks have been spawned
PairMessage ==
    /\ Running
    /\ Len(ipc.tasks) < 2
    /\ \E message \in {<<"b", ".", "o", "n", "e">>,
                       <<"b", ".", "t", "w", "o">>} :
       \E out \in {send_message(bar,
                       [ipc EXCEPT !.input = [kind |-> "line",
                                              message |-> message,
                                              parity |-> ~@.parity]],
                       message)} :
          /\ bar' = out.bar
          /\ ipc' = out.ipc
    /\ UNCHANGED <<slice, statuses, pc, hook_calls, passes>>

\* the response of panel b to an action: an error that carries the action
Echo(event) == Err(event.message)

\* a panel takes the next event from its endpoint and answers it
PanelEchoes ==
    /\ \E e \in 1..Len(ipc.endpoints) :
          /\ ipc.endpoints[e].events # <<>>
          /\ ipc' = [ipc EXCEPT
                        !.endpoints[e].events = Tail(@),
                        !.endpoints[e].replies =
                            Append(@, Echo(Head(ipc.endpoints[e].events)))]
    /\ UNCHANGED <<bar, slice, statuses, pc, hook_calls, passes>>

PairNext ==
    \/ PairMessage
    \/ Clone
    \/ SendAction
    \/ Lock
    \/ Recv
    \/ Forward
    \/ PanelEchoes

PairSpec == IpcInit /\ [][PairNext]_vars

\* C34: every response forwarded to an IPC caller is the response the
\* panel produced for that caller's action.
C34_OwnResponse ==
    \A c \in 1..Len(ipc.caller) :
        ipc.caller[c].response
            = Echo(Action(ipc.tasks[ipc.caller[c].of].message))


---------------------------------------------------------------------------
(* The layout a repaint of the whole bar leaves                            *)

\* the panels of a region whose latch says Shown and that have a draw_info
ShownIn(panels) ==
    {i \in 1..Len(panels) : panels[i].last_status /\ panels[i].draw_info.some}

\* no Shown panel of `before` reaches past the x of a Shown panel of `after`
Apart(before, after) ==
    \A i \in ShownIn(before) : \A j \in ShownIn(after) :
        before[i].x + F(before[i].draw_info.width) <= after[j].x

\* the extents are in order, every region is laid side by side from its
\* start and the regions keep apart
WellLaid(b) ==
    /\ b.extents.left <= b.extents.center[1]
    /\ b.extents.center[1] <= b.extents.center[2]
    /\ b.extents.center[2] <= b.extents.right
    /\ \A i \in 1..Len(b.left_panels) :
          i \in ShownIn(b.left_panels) =>
              b.left_panels[i].x
                  = b.margins.left
                    + F(ShownWidth(b.left_panels, Latched(b.left_panels), i - 1))
    /\ \A i \in 1..Len(b.center_panels) :
          i \in ShownIn(b.center_panels) =>
              b.center_panels[i].x
                  = b.extents.center[1]
                    + F(ShownWidth(b.center_panels, Latched(b.center_panels),
                                   i - 1))
    /\ \A i \in 1..Len(b.right_panels) :
          i \in ShownIn(b.right_panels) =>
              b.right_panels[i].x
                  = b.extents.right
                    + F(ShownWidth(b.right_panels, Latched(b.right_panels),
                                   i - 1))
    /\ Apart(b.left_panels, b.center_panels)
    /\ Apart(b.center_panels, b.right_panels)
    /\ Apart(b.left_panels, b.right_panels)

\* what is required of a bar that a repaint has just returned
AfterRepaint(b) == ~b.panicked => WellLaid(b)

\* C35: from every state the bar can be in, a repaint of the whole bar
\* that succeeds leaves extents.left <= extents.center.start
\* <= extents.center.cursor <= extents.right, the Shown panels of each
\* region side by side in index order (left from margins.left, center from
\* center.start, right from extents.right), and no Shown panels of
\* different regions overlapping.
C35_FullRepaintLayout == AfterRepaint(redraw_bar(bar))

\* a repainted bar with Shown panels in all three regions, the center
\* block pressed to the left by the right region
C35_Witness ==
    /\ ~bar.panicked
    /\ LayoutOf(bar) = LayoutOf(redraw_bar(bar))
    /\ ShownIn(bar.left_panels) # {}
    /\ ShownIn(bar.center_panels) # {}
    /\ ShownIn(bar.right_panels) # {}
    /\ bar.center_state = "Left"


---------------------------------------------------------------------------
(* '#' lines, applicable and not, on the bar of IpcSpec                    *)

\* the '#' lines the IPC socket delivers: visibility commands for panels
\* the bar has, an unknown verb, an index past the end of the region, and
\* texts that are not of the form <region><index>.<verb>
PanelLines ==
    {<<"#", "l", "0", ".", "h", "i", "d", "e">>,
     <<"#", "l", "1", ".", "t", "o", "g", "g", "l", "e">>,
     <<"#", "c", "0", ".", "s", "h", "o", "w">>,
     <<"#", "r", "0", ".", "t", "o", "g", "g", "l", "e">>,
     <<"#", "l", "0", ".", "q", "u", "i", "t">>,
     <<"#", "r", "7", ".", "h", "i", "d", "e">>,
     <<"#", "q", "u", "i", "t">>,
     <<"#", "l", ".", "h", "i", "d", "e">>,
     <<"#", "x", "l", "0", ".", "h", "i", "d", "e">>,
     <<"#", "c", "0", "x", "h", "i", "d", "e">>}

\* the event loop takes one '#' line from the IPC socket
PanelLine ==
    /\ Running
    /\ \E message \in PanelLines :
       \E out \in {send_message(bar,
                       [ipc EXCEPT !.input = [kind |-> "line",
                                              message |-> message,
                                              parity |-> ~@.parity]],
                       message)} :
          /\ bar' = out.bar
          /\ ipc' = out.ipc
          /\ pc' = IF out.bar.result = "Ok(true)" THEN "quit" ELSE pc
    /\ UNCHANGED <<slice, statuses, hook_calls, passes>>

LineNext ==
    \/ PanelLine
    \/ Expose(TRUE)

LineSpec == IpcInit /\ [][LineNext]_vars

\* the number of digits that follow the first character of a text
DigitsAfterFirst(t) ==
    Max({k \in 0..(Len(t) - 1) : \A j \in 1..k : IsDigit(t[j + 1])})

\* a text read as <region><index>.<verb>, with k digits in the index
ReadAs(t, k) ==
    IF /\ t # <<>>
       /\ t[1] \in {"l", "c", "r"}
       /\ k >= 1
       /\ Len(t) >= k + 3
       /\ t[k + 2] = "."
    THEN [ok |-> TRUE, region |-> RegionOf(t[1]),
          idx |-> parse_usize(SubSeq(t, 2, k + 1)),
          verb |-> Word(SubSeq(t, k + 3, Len(t)))]
    ELSE [ok |-> FALSE]

\* a text after '#' read as <region><index>.<verb>
Addressed(t) == ReadAs(t, IF t = <<>> THEN 0 ELSE DigitsAfterFirst(t))

\* the command names a panel the bar has
InRange(b, a) == a.ok /\ a.idx < Len(PanelsOf(b, a.region))

\* no panel, no extent and not the center state differ, and nothing was
\* repainted
Untouched(b, c) ==
    /\ c.left_panels = b.left_panels
    /\ c.center_panels = b.center_panels
    /\ c.right_panels = b.right_panels
    /\ c.extents = b.extents
    /\ c.center_state = b.center_state
    /\ Len(c.log) = 1

\* what is stated for a '#' command `a` that cannot be applied
Inapplicable(b, c, a) ==
    IF InRange(b, a)
    THEN a.verb \notin {"show", "hide", "toggle"}
             => (c.result = "Err" /\ Untouched(b, c))
    ELSE c.result = "Ok(false)" /\ Untouched(b, c)

\* C36: a '#' line with an unknown verb for a panel the bar has returns an
\* error, changes no panel, no extent and repaints nothing; a '#' line
\* whose index is past the end of the region, or that is not of the form
\* <region><index>.<verb>, changes nothing, repaints nothing and returns
\* Ok(false).
C36_InapplicableCommand ==
    [][LineStep =>
          Inapplicable(bar, bar', Addressed(Tail(ipc'.input.message)))]_vars

====
